---- MODULE Spec2Model ----
(***************************************************************************)
(* Model of the cascading OHLCV acquisition engine of byma-historico:      *)
(* scraper_cascade.py (bar store, coverage, cascade, download_all), and    *)
(* the retry loops of scraper_cascade.py, scraper_byma.py and scraper.py.  *)
(***************************************************************************)
EXTENDS Integers, Sequences, FiniteSets, TLC

(***************************************************************************)
(* Program constants                                                       *)
(***************************************************************************)
SOURCE_BYMA  == "byma"
SOURCE_IOL   == "iol"
SOURCE_YAHOO == "yahoo"
SOURCE_AT    == "analisistecnico"

\* SOURCES: the names of the (name, fetch_fn) pairs, in priority order.
SOURCES == <<SOURCE_BYMA, SOURCE_IOL, SOURCE_YAHOO, SOURCE_AT>>

SourceNames == {SOURCES[n] : n \in 1..Len(SOURCES)}

MIN_YEARS == 5

\* Python None in a text column or a string-valued local.
None == "None"

\* Python None / SQL NULL in a numeric or date column.
NULL == -1

MAX_RETRIES == 3

\* RETRY_BACKOFF of scraper_cascade.py and scraper_byma.py.
RETRY_BACKOFF == <<3, 10, 30>>

\* RETRY_BACKOFF of scraper.py.
RETRY_BACKOFF_scraper == <<5, 15, 45>>

\* years_of_data divides a day count by 365.25; the model keeps years as
\* an integer number of 1/1461 years (days * 4), so 1461 units are one year.
DaysPer4Years == 1461

(***************************************************************************)
(* Bounds and input sets                                                   *)
(***************************************************************************)
\* Calendar dates as day numbers: 731 days (2.001 years), 1461 days
\* (exactly 4 years) and 2192 days (6.001 years) apart.
DateSet == {1, 732, 2193}

\* The registered instruments.
TickerSet == {"GGAL", "YPFD"}

\* Most entries a provider payload holds.
MaxBars == 2

\* Most rows of a direct store_ohlcv call.
MaxBatch == 2

\* --min-years values of a run (MIN_YEARS is the default).
MinYearsSet == {MIN_YEARS}

\* What main can put in skip_sources (--skip-iol, --skip-yahoo).
SkipSets == SUBSET {SOURCE_IOL, SOURCE_YAHOO}

(***************************************************************************)
(* Bar store                                                               *)
(***************************************************************************)
\* A row tuple of the ohlcv table.  open/high/low/close travel together
\* through every code path and are one field, ohlc; the unix timestamp
\* determines the date and is not kept apart from it.
Row(t, d, o, v, ri, s) ==
    [ticker |-> t, date |-> d, ohlc |-> o, volume |-> v, row_index |-> ri, data_source |-> s]

\* PRIMARY KEY (ticker, date, row_index)
KeyOf(r) == <<r.ticker, r.date, r.row_index>>

\* A REPLACE keyed by (ticker, date): the rows of the date with another
\* row_index go.
ReplaceByDate(db, r) ==
    [k \in {q \in DOMAIN db : q[1] # r.ticker \/ q[2] # r.date} \cup {KeyOf(r)} |->
        IF k = KeyOf(r)
        THEN [ohlc |-> r.ohlc, volume |-> r.volume, data_source |-> r.data_source]
        ELSE db[k]]

\* An INSERT that keeps a stored row and puts the new one under the next
\* free row_index of its date.
InsertAsDuplicate(db, r) ==
    LET taken == {q[3] : q \in {k \in DOMAIN db : k[1] = r.ticker /\ k[2] = r.date}}
        free  == CHOOSE n \in 0..Cardinality(taken) : n >= r.row_index /\ n \notin taken
        key   == IF KeyOf(r) \in DOMAIN db THEN <<r.ticker, r.date, free>> ELSE KeyOf(r)
    IN [k \in (DOMAIN db) \cup {key} |->
          IF k = key
          THEN [ohlc |-> r.ohlc, volume |-> r.volume, data_source |-> r.data_source]
          ELSE db[k]]

\* INSERT OR IGNORE in the place of INSERT OR REPLACE: a stored row stays.
InsertOrIgnore(db, r) ==
    [k \in (DOMAIN db) \cup {KeyOf(r)} |->
        IF k \in DOMAIN db THEN db[k]
        ELSE [ohlc |-> r.ohlc, volume |-> r.volume, data_source |-> r.data_source]]

\* One INSERT OR REPLACE: the row takes the place of any row with its key.
InsertOrReplace(db, r) ==
    [k \in (DOMAIN db) \cup {KeyOf(r)} |->
        IF k = KeyOf(r)
        THEN [ohlc |-> r.ohlc, volume |-> r.volume, data_source |-> r.data_source]
        ELSE db[k]]

\* The NOT NULL columns of ohlcv have no default, so REPLACE falls back to
\* ABORT for a NULL in them: the statement fails with IntegrityError.
ViolatesNotNull(r) == r.ohlc = NULL \/ r.volume = NULL

\* executemany: the rows are inserted one statement after the other; a
\* failing statement raises and leaves the earlier rows of the batch in the
\* connection's open transaction.
RECURSIVE ExecuteMany(_, _, _)
ExecuteMany(db, rows, n) ==
    IF n > Len(rows) THEN [db |-> db, raised |-> FALSE, rowcount |-> Len(rows)]
    ELSE IF ViolatesNotNull(rows[n]) THEN [db |-> db, raised |-> TRUE, rowcount |-> n - 1]
    ELSE ExecuteMany(InsertOrReplace(db, rows[n]), rows, n + 1)

\* A store_ohlcv that deletes the instrument's rows before it inserts.
store_ohlcv_refresh(db, rows) ==
    IF rows = <<>> THEN [db |-> db, raised |-> FALSE, rowcount |-> 0]
    ELSE ExecuteMany([k \in {q \in DOMAIN db : q[1] # rows[1].ticker} |-> db[k]], rows, 1)

\* store_ohlcv(conn, rows): returns the table, whether it raised, and
\* cursor.rowcount (one per executed statement).
store_ohlcv(db, rows) ==
    IF rows = <<>> THEN [db |-> db, raised |-> FALSE, rowcount |-> 0]
    ELSE ExecuteMany(db, rows, 1)

(***************************************************************************)
(* Coverage                                                                *)
(***************************************************************************)
SetMin(S) == CHOOSE x \in S : \A y \in S : x <= y
SetMax(S) == CHOOSE x \in S : \A y \in S : x >= y

\* get_ohlcv_date_range without `AND row_index = 0`.
get_ohlcv_date_range_all(db, t) ==
    LET ds == {k[2] : k \in {q \in DOMAIN db : q[1] = t}}
        n  == Cardinality({q \in DOMAIN db : q[1] = t})
    IN IF ds = {} THEN [min_date |-> NULL, max_date |-> NULL, count |-> 0]
       ELSE [min_date |-> SetMin(ds), max_date |-> SetMax(ds), count |-> n]

\* SELECT MIN(date), MAX(date), COUNT(*) ... WHERE ticker = ? AND row_index = 0
get_ohlcv_date_range(db, t) ==
    LET ds == {k[2] : k \in {q \in DOMAIN db : q[1] = t /\ q[3] = 0}}
        n  == Cardinality({q \in DOMAIN db : q[1] = t /\ q[3] = 0})
    IN IF ds = {} THEN [min_date |-> NULL, max_date |-> NULL, count |-> 0]
       ELSE [min_date |-> SetMin(ds), max_date |-> SetMax(ds), count |-> n]

\* years_of_data with d1 - d2 in the place of d2 - d1.
years_of_data_swapped(min_date, max_date) ==
    IF min_date = NULL \/ max_date = NULL THEN 0
    ELSE (min_date - max_date) * 4

\* years_of_data, in 1/1461 years.
years_of_data(min_date, max_date) ==
    IF min_date = NULL \/ max_date = NULL THEN 0
    ELSE (max_date - min_date) * 4

\* yrs >= min_years, with yrs in 1/1461 years and min_years in years.
YearsAtLeast(yrs, min_years) == yrs >= min_years * DaysPer4Years

(***************************************************************************)
(* Provider answers and source adapters                                    *)
(***************************************************************************)
\* One entry of a provider payload: a trading day with its OHLC and its
\* volume, either of which the provider may send as null.
EntrySet ==
    {[date |-> d, ohlc |-> q[1], volume |-> q[2]] :
        d \in DateSet, q \in {<<100, 7>>, <<NULL, 7>>, <<100, NULL>>}}

\* Payloads: 1..MaxBars entries in timestamp order.  In a "distinct" feed
\* every entry has its own calendar date; in a "repeats" feed two entries
\* may fall on the same date.
Payloads(fd) ==
    {p \in UNION {[1..n -> EntrySet] : n \in 1..MaxBars} :
        \A a, b \in DOMAIN p : a < b =>
            IF fd = "distinct" THEN p[a].date < p[b].date ELSE p[a].date <= p[b].date}

\* What a provider does with one fetch: the transport fails for good
\* ("error"), it has nothing for the symbol ("nodata": _http_get returned
\* None, the status is not ok, the page has no table), or it sends a payload.
ProviderAnswers(fd) ==
    {[kind |-> "error", entries |-> <<>>], [kind |-> "nodata", entries |-> <<>>]}
    \cup {[kind |-> "data", entries |-> p] : p \in Payloads(fd)}

\* The provider's answer is not fixed.
AnyAnswer == [kind |-> "any", entries |-> <<>>]

Raise == [raised |-> TRUE, rows |-> <<>>]
Return(rows) == [raised |-> FALSE, rows |-> rows]

\* The entries that have an OHLC, in their order: the loops of fetch_yahoo
\* and scrape_ticker `continue` on the others.
SelectEntries(es) ==
    LET F[n \in 0..Len(es)] ==
            IF n = 0 THEN <<>>
            ELSE IF es[n].ohlc # NULL THEN Append(F[n - 1], es[n]) ELSE F[n - 1]
    IN F[Len(es)]

\* fetch_byma: int(volumes[i]) raises on a null volume; OHLC go into the
\* row as they came; row_index is always 0.
fetch_byma(t, ans) ==
    IF ans.kind = "error" THEN Raise
    ELSE IF ans.kind = "nodata" THEN Return(<<>>)
    ELSE IF \E n \in DOMAIN ans.entries : ans.entries[n].volume = NULL THEN Raise
    ELSE Return([n \in DOMAIN ans.entries |->
                    Row(t, ans.entries[n].date, ans.entries[n].ohlc,
                        ans.entries[n].volume, 0, SOURCE_BYMA)])

\* A date_count that starts at 1 for the second entry of a date and goes
\* on by 2.
RowIdxByTwo(es, n) == 2 * Cardinality({m \in 1..(n - 1) : es[m].date = es[n].date})

\* date_count of fetch_analisistecnico: the number of earlier entries of
\* the payload with the same date.
RowIdx(es, n) == Cardinality({m \in 1..(n - 1) : es[m].date = es[n].date})

\* fetch_analisistecnico: as fetch_byma, with row_index counting the
\* entries of one date.
fetch_analisistecnico(t, ans) ==
    IF ans.kind = "error" THEN Raise
    ELSE IF ans.kind = "nodata" THEN Return(<<>>)
    ELSE IF \E n \in DOMAIN ans.entries : ans.entries[n].volume = NULL THEN Raise
    ELSE Return([n \in DOMAIN ans.entries |->
                    Row(t, ans.entries[n].date, ans.entries[n].ohlc,
                        ans.entries[n].volume, RowIdx(ans.entries, n), SOURCE_AT)])

\* fetch_yahoo: entries with a null OHLC are dropped, a null volume is 0.
fetch_yahoo(t, ans) ==
    IF ans.kind = "error" THEN Raise
    ELSE IF ans.kind = "nodata" THEN Return(<<>>)
    ELSE LET kept == SelectEntries(ans.entries)
         IN Return([n \in DOMAIN kept |->
                      Row(t, kept[n].date, kept[n].ohlc,
                          IF kept[n].volume = NULL THEN 0 ELSE kept[n].volume,
                          0, SOURCE_YAHOO)])

\* fetch_iol: never raises (no scraper, or scrape_ticker raising, is an
\* empty result); parse_number turns a missing cell into 0 and the rows
\* whose OHLC are all 0 are skipped.
fetch_iol(t, ans) ==
    IF ans.kind = "error" THEN Return(<<>>)
    ELSE IF ans.kind = "nodata" THEN Return(<<>>)
    ELSE LET kept == SelectEntries(ans.entries)
         IN Return([n \in DOMAIN kept |->
                      Row(t, kept[n].date, kept[n].ohlc,
                          IF kept[n].volume = NULL THEN 0 ELSE kept[n].volume,
                          0, SOURCE_IOL)])

\* fetch_fn(ticker) of the SOURCES entry called source_name.
Fetch(source_name, t, ans) ==
    CASE source_name = SOURCE_BYMA  -> fetch_byma(t, ans)
      [] source_name = SOURCE_IOL   -> fetch_iol(t, ans)
      [] source_name = SOURCE_YAHOO -> fetch_yahoo(t, ans)
      [] source_name = SOURCE_AT    -> fetch_analisistecnico(t, ans)

(***************************************************************************)
(* State                                                                   *)
(***************************************************************************)
VARIABLES
    ohlcv,          \* table ohlcv: key <<ticker, date, row_index>> -> columns
    tickers,        \* table tickers: ticker -> downloaded_at, bars_count, data_source
    download_log,   \* table download_log, in insertion order
    args,           \* force, min_years, skip_sources of the run
    pc,             \* where download_all stands
    i,              \* download_all: index of the instrument in turn
    j,              \* cascade_download: index of the source in turn
    total_stored,   \* cascade_download local
    primary_source, \* cascade_download local
    sources_used,   \* cascade_download local: <<source_name, stored>> pairs
    stats,          \* CascadeStats counters
    outcome,        \* per instrument, the CascadeStats counter it was counted in
    calls,          \* fetch_fn calls of the cascade in progress: source and result
    before,         \* the ohlcv table when the instrument's turn began
    tickerlist,     \* download_all's `tickers` argument
    feed,           \* the kind of payloads the providers send
    remote,         \* per instrument and source, the answer the provider holds
    reruns,         \* the runs of download_all still to be made after this one
    first,          \* what the first run left, once a second run has begun
    \* one call of a retry loop
    h_fn,           \* the function called
    h_pc,           \* "idle", "attempt" (about to call urlopen), "returned", "raised"
    h_call,         \* fetch_yahoo: 1 in its first _http_get call, 2 in its fallback call
    attempt,        \* the loop variable of `for attempt in range(MAX_RETRIES)`
    last_error,     \* the local last_error
    resps,          \* what urlopen did at each attempt of the call so far
    sleeps,         \* the time.sleep(wait) arguments of the call so far
    \* one direct call of store_ohlcv
    batch,          \* its `rows` argument
    st_raised,      \* whether it raised
    \* load_tickers_from_csv
    registry,       \* table tickers: ticker -> id, name, trading_type, enabled, description
    catalog,        \* the kind of CSV files the run may be given
    csv_rows,       \* the rows of the CSV file, as csv.DictReader returns them
    reg_before,     \* table tickers when the call began
    result,         \* the local `result`
    r_pc,           \* "idle", "loop", "returned", "raised", "exited"
    r_k,            \* index of the CSV row in turn
    r_run,          \* the number of calls begun
    \* scraper.py: main and download_all
    k_pc,           \* "idle", "phase1", "fetch1", "phase2", "fetch2", "returned", "exited"
    k_i,            \* the loop index of the phase
    yahoo_pending,  \* download_all's local yahoo_pending
    interrupted,    \* main's flag, set by handle_sigint
    sigints,        \* the SIGINT signals delivered so far
    started,        \* the downloads begun: instrument, phase, SIGINTs delivered before
    \* the pace of the outbound requests, in ticks of half a second
    t_pc,           \* "idle", "ready" (between calls), "attempt" (about to call urlopen), "sleep"
    t_who,          \* the client instance, or the provider, of the call in progress
    t_attempt,      \* the loop variable of `for attempt in range(MAX_RETRIES)`
    t_call,         \* fetch_yahoo: 1 in its first _http_get call, 2 in its fallback call
    t_j,            \* cascade_download: index of the source in turn
    t_delay,        \* per client or provider, the configured delay
    t_slept,        \* what _throttle slept in the last _request
    age_stamp,      \* per client, the time since its _last_request_time
    age_sent,       \* per client or provider, the time since its last outbound request
    gap,            \* the latest outbound request: to whom, how long after the one before
    \* two processes in load_tickers_from_csv on one database file
    w_csv,          \* per process, its csv_rows
    w_pc,           \* per process: "idle", "max_id", "insert", "commit", "returned", "exited"
    w_k,            \* per process, the index of the CSV row in turn
    w_row_id,       \* per process, the local row_id
    w_view,         \* per process, table tickers as its open transaction has it
    w_lock,         \* the process that holds the write lock of the file, or None
    w_error,        \* per process, the exception that ended it, or None
    w_assigned,     \* per process, the auto-assigned row_id of each of its tickers
    \* scraper_cascade.py: main's download phase and the IOL session
    playwright,     \* "installed", "no_browser" (chromium.launch raises), "missing"
    iol_scraper,    \* the module global _iol_scraper: None or "IOLScraper"
    iol_session,    \* the IOLScraper object: its _pw and its _browser
    iol_results,    \* what each fetch_iol call returned: "rows" or "empty"
    stop_calls,     \* the calls of IOLScraper.stop so far
    m_pc,           \* "idle", "download", "finally", "returned", "exited"
    m_i,            \* download_all: index of the instrument in turn
    m_exc           \* the exception that left download_all uncaught, or None

\* The variables of download_all and cascade_download.
cvars == <<ohlcv, tickers, download_log, args, pc, i, j, total_stored,
           primary_source, sources_used, stats, outcome, calls, before,
           tickerlist, feed, remote, reruns, first>>

\* The variables of a retry loop.
hvars == <<h_fn, h_pc, h_call, attempt, last_error, resps, sleeps>>

\* The variables of a direct store_ohlcv call.
svars == <<batch, st_raised>>

\* The variables of load_tickers_from_csv.
rvars == <<registry, catalog, csv_rows, reg_before, result, r_pc, r_k, r_run>>

\* The variables of scraper.py's main and download_all.
kvars == <<k_pc, k_i, yahoo_pending, interrupted, sigints, started>>

\* The variables of the programs other than scraper_cascade.py.
\* The variables of the pace of the requests.
tvars == <<t_pc, t_who, t_attempt, t_call, t_j, t_delay, t_slept, age_stamp, age_sent, gap>>

\* The variables of the concurrent reconciliations.
wvars == <<w_csv, w_pc, w_k, w_row_id, w_view, w_lock, w_error, w_assigned>>

\* The variables of main's download phase and of the IOL session.
ivars == <<playwright, iol_scraper, iol_session, iol_results, stop_calls, m_pc, m_i, m_exc>>

xvars == <<kvars, tvars, wvars, ivars>>

vars == <<cvars, hvars, svars, rvars, xvars>>

\* The variables of download_all other than the two tables a direct
\* store_ohlcv call touches.
crest == <<tickers, download_log, args, pc, i, j, total_stored, primary_source,
           sources_used, stats, outcome, calls, tickerlist, feed, remote,
           reruns, first>>

\* What no step of download_all changes.
env == <<args, tickerlist, feed, remote, reruns, first>>

\* What belongs to the other operations.
outside == <<hvars, svars, rvars, xvars>>

EmptyTable == [k \in {} |-> 0]

\* CascadeStats.__init__
CascadeStats ==
    [success |-> 0, partial |-> 0, empty |-> 0, errors |-> 0, skipped |-> 0, total_bars |-> 0]

\* init_db on a fresh file followed by a registry load: every instrument
\* registered, nothing downloaded; main then calls download_all.
NewTickers ==
    [t \in TickerSet |-> [downloaded_at |-> FALSE, bars_count |-> 0, data_source |-> None]]

\* No run of download_all was completed before this one.
NoFirst == [db |-> EmptyTable, log |-> <<>>, outcome |-> [t \in TickerSet |-> "none"]]

\* last_error = None
NoError == [kind |-> "none", code |-> 0]

\* The providers may answer anything, download_all is run once.
SingleRun ==
    /\ remote = [t \in TickerSet |-> [s \in SourceNames |-> AnyAnswer]]
    /\ reruns = 0
    /\ first = NoFirst

\* No retry loop is running.
HttpIdle ==
    /\ h_fn = None
    /\ h_pc = "idle"
    /\ h_call = 1
    /\ attempt = 0
    /\ last_error = NoError
    /\ resps = <<>>
    /\ sleeps = <<>>

\* No direct store_ohlcv call was made.
StoreIdle ==
    /\ batch = <<>>
    /\ st_raised = FALSE

\* scraper.py is not run.
ScraperIdle ==
    /\ k_pc = "idle"
    /\ k_i = 1
    /\ yahoo_pending = <<>>
    /\ interrupted = FALSE
    /\ sigints = 0
    /\ started = <<>>

\* No request is paced.
PaceIdle ==
    /\ t_pc = "idle"
    /\ t_who = None
    /\ t_attempt = 0
    /\ t_call = 1
    /\ t_j = 1
    /\ t_delay = EmptyTable
    /\ t_slept = 0
    /\ age_stamp = EmptyTable
    /\ age_sent = EmptyTable
    /\ gap = [to |-> None, ticks |-> NULL]

\* No two processes share the database file.
WritersIdle ==
    /\ w_csv = EmptyTable
    /\ w_pc = EmptyTable
    /\ w_k = EmptyTable
    /\ w_row_id = EmptyTable
    /\ w_view = EmptyTable
    /\ w_lock = None
    /\ w_error = EmptyTable
    /\ w_assigned = EmptyTable

\* IOLScraper.__init__: self._pw = None, self._browser = None
NewSession == [pw |-> "none", browser |-> "none"]

\* main's try/finally around download_all is not followed; IOL is not
\* asked.
IolIdle ==
    /\ playwright = "installed"
    /\ iol_scraper = None
    /\ iol_session = NewSession
    /\ iol_results = <<>>
    /\ stop_calls = 0
    /\ m_pc = "idle"
    /\ m_i = 1
    /\ m_exc = None

\* No program other than one scraper_cascade.py is run.
RestIdle == ScraperIdle /\ PaceIdle /\ WritersIdle /\ IolIdle

\* result = {"new": [], "updated": [], "disabled": [], "unchanged": 0, ...}
NewResult == [new |-> <<>>, updated |-> <<>>, disabled |-> <<>>, unchanged |-> 0]

\* One row of table tickers, the columns load_tickers_from_csv writes.
Instrument(id, name, trading_type, enabled, description) ==
    [id |-> id, name |-> name, trading_type |-> trading_type,
     enabled |-> enabled, description |-> description]

\* The registry of the runs that load no CSV file: both instruments
\* registered and enabled.
Registered ==
    [t \in TickerSet |->
        Instrument(IF t = "GGAL" THEN 1 ELSE 2, "n1", "STOCK", TRUE, "")]

\* load_tickers_from_csv was not called; the CSV file given, if one is, is
\* of catalog c.
SyncReady(c) ==
    /\ registry = Registered
    /\ catalog = c
    /\ csv_rows = <<>>
    /\ reg_before = registry
    /\ result = NewResult
    /\ r_pc = "idle"
    /\ r_k = 1
    /\ r_run = 0

\* load_tickers_from_csv is not called: no CSV file is given.
SyncIdle == SyncReady("none")

\* What an earlier run of scraper.py left for instrument t: nothing, or the
\* rows of one clean two-bar analisistecnico history, stored and marked.
LegacySeeds(t) ==
    {[db |-> EmptyTable, tbl |-> NewTickers]}
    \cup {[db  |-> store_ohlcv(EmptyTable, fetch_analisistecnico(t, a).rows).db,
           tbl |-> [NewTickers EXCEPT ![t] =
                      [downloaded_at |-> TRUE, bars_count |-> 2, data_source |-> SOURCE_AT]]] :
            a \in {x \in ProviderAnswers("distinct") :
                      /\ x.kind = "data"
                      /\ Len(x.entries) = 2
                      /\ \A n \in DOMAIN x.entries :
                            x.entries[n].ohlc # NULL /\ x.entries[n].volume # NULL}}

\* main is about to call download_all for --ticker GGAL on a database that
\* holds at most what a legacy run left.
DownloadReady ==
    /\ tickerlist = <<"GGAL">>
    /\ feed = "distinct"
    /\ SingleRun
    /\ \E seed \in LegacySeeds(tickerlist[1]) :
          /\ ohlcv = seed.db
          /\ tickers = seed.tbl
    /\ HttpIdle
    /\ StoreIdle
    /\ RestIdle
    /\ args \in [force : BOOLEAN, min_years : MinYearsSet, skip_sources : SkipSets]
    /\ pc = "da_loop"
    /\ i = 1
    /\ j = 1
    /\ total_stored = 0
    /\ primary_source = None
    /\ sources_used = <<>>
    /\ stats = CascadeStats
    /\ outcome = [t \in TickerSet |-> "none"]
    /\ calls = <<>>
    /\ before = ohlcv

\* main calls download_all; no CSV file is loaded.
Init ==
    /\ DownloadReady
    /\ SyncIdle
    /\ download_log = <<>>

(***************************************************************************)
(* Persistence helpers                                                     *)
(***************************************************************************)
\* mark_downloaded: UPDATE tickers SET downloaded_at, bars_count, data_source
mark_downloaded(tbl, t, bars_count, source) ==
    [tbl EXCEPT ![t] = [downloaded_at |-> TRUE, bars_count |-> bars_count, data_source |-> source]]

\* A log that keeps one entry per instrument, the latest.
log_download_latest(lg, t, status, bars_found, bars_stored, source) ==
    Append(SelectSeq(lg, LAMBDA e : e.ticker # t),
           [ticker |-> t, status |-> status, bars_found |-> bars_found,
            bars_stored |-> bars_stored, data_source |-> source])

\* log_download: INSERT INTO download_log
log_download(lg, t, status, bars_found, bars_stored, source) ==
    Append(lg, [ticker |-> t, status |-> status, bars_found |-> bars_found,
                bars_stored |-> bars_stored, data_source |-> source])

(***************************************************************************)
(* download_all and cascade_download                                       *)
(***************************************************************************)
Coverage(db, t) ==
    LET r == get_ohlcv_date_range(db, t)
    IN [count |-> r.count, years |-> years_of_data(r.min_date, r.max_date)]

\* The skip test with the force flag inverted.
SkipGuardInverted(force, count, yrs, min_years) ==
    force /\ count > 0 /\ YearsAtLeast(yrs, min_years)

\* download_all: `not force and existing_count > 0 and existing_years >= min_years`
SkipGuard(force, count, yrs, min_years) ==
    ~force /\ count > 0 /\ YearsAtLeast(yrs, min_years)

\* The coverage test with the bar count in the place of the years.
EnoughGuardByCount(count, yrs, min_years) ==
    count > 0 /\ count >= min_years

\* cascade_download: `count > 0 and yrs >= min_years`
EnoughGuard(count, yrs, min_years) ==
    count > 0 /\ YearsAtLeast(yrs, min_years)

\* The primary source as the last contributor.
NextPrimaryLast(primary, source_name) == source_name

\* cascade_download: `if primary_source is None: primary_source = source_name`
NextPrimary(primary, source_name) ==
    IF primary = None THEN source_name ELSE primary

\* The final classification by bar count.
ClassifyByCount(count, yrs, min_years) ==
    IF count >= min_years THEN "success" ELSE "partial"

\* download_all: `if final_years >= min_years` picks stats.success, else
\* stats.partial.
Classify(count, yrs, min_years) ==
    IF YearsAtLeast(yrs, min_years) THEN "success" ELSE "partial"

Ticker == tickerlist[i]

\* What the provider of source s may answer to a fetch for instrument t:
\* anything its feed allows, or the one answer it holds for the instrument.
Answers(t, s) ==
    IF remote[t][s] = AnyAnswer THEN ProviderAnswers(feed) ELSE {remote[t][s]}

\* download_all, top of the loop: the instrument is already covered.
da_skip ==
    /\ pc = "da_loop"
    /\ i <= Len(tickerlist)
    /\ LET c == Coverage(ohlcv, Ticker)
       IN SkipGuard(args.force, c.count, c.years, args.min_years)
    /\ stats' = [stats EXCEPT !.skipped = @ + 1]
    /\ outcome' = [outcome EXCEPT ![Ticker] = "skipped"]
    /\ before' = ohlcv
    /\ i' = i + 1
    /\ UNCHANGED <<ohlcv, tickers, download_log, env, outside, pc, j, total_stored,
                   primary_source, sources_used, calls>>

\* download_all, top of the loop: cascade_download is entered.
da_begin ==
    /\ pc = "da_loop"
    /\ i <= Len(tickerlist)
    /\ LET c == Coverage(ohlcv, Ticker)
       IN ~SkipGuard(args.force, c.count, c.years, args.min_years)
    /\ pc' = "cascade"
    /\ j' = 1
    /\ total_stored' = 0
    /\ primary_source' = None
    /\ sources_used' = <<>>
    /\ calls' = <<>>
    /\ before' = ohlcv
    /\ UNCHANGED <<ohlcv, tickers, download_log, env, outside, i, stats, outcome>>

\* cascade_download: `if source_name in skip_sources: continue`
cd_skip ==
    /\ pc = "cascade"
    /\ j <= Len(SOURCES)
    /\ SOURCES[j] \in args.skip_sources
    /\ j' = j + 1
    /\ UNCHANGED <<ohlcv, tickers, download_log, env, outside, pc, i, total_stored,
                   primary_source, sources_used, stats, outcome, calls, before>>

NotEnoughYet ==
    /\ pc = "cascade"
    /\ j <= Len(SOURCES)
    /\ SOURCES[j] \notin args.skip_sources
    /\ LET c == Coverage(ohlcv, Ticker)
       IN ~EnoughGuard(c.count, c.years, args.min_years)

\* cascade_download: the coverage check before a source breaks the loop.
cd_enough ==
    /\ pc = "cascade"
    /\ j <= Len(SOURCES)
    /\ SOURCES[j] \notin args.skip_sources
    /\ LET c == Coverage(ohlcv, Ticker)
       IN EnoughGuard(c.count, c.years, args.min_years)
    /\ pc' = "final"
    /\ UNCHANGED <<ohlcv, tickers, download_log, env, outside, i, j, total_stored,
                   primary_source, sources_used, stats, outcome, calls, before>>

\* cascade_download: the source list is exhausted.
cd_exhausted ==
    /\ pc = "cascade"
    /\ j > Len(SOURCES)
    /\ pc' = "final"
    /\ UNCHANGED <<ohlcv, tickers, download_log, env, outside, i, j, total_stored,
                   primary_source, sources_used, stats, outcome, calls, before>>

\* A fetch_fn call: the source, how it ended ("raise", "empty", "rows", or
\* "rejected" for rows on which store_ohlcv raised) and the days between
\* the first and the last date it returned.
Call(source_name, res, rows) ==
    LET ds == {rows[n].date : n \in DOMAIN rows}
    IN [source |-> source_name, result |-> res,
        span |-> IF ds = {} THEN NULL ELSE SetMax(ds) - SetMin(ds)]

\* cascade_download without its `except Exception`: the error of fetch_fn
\* reaches download_all's handler.
cd_fetch_raises_abort ==
    /\ NotEnoughYet
    /\ \E ans \in Answers(Ticker, SOURCES[j]) :
          /\ Fetch(SOURCES[j], Ticker, ans).raised
          /\ calls' = Append(calls, Call(SOURCES[j], "raise", <<>>))
    /\ download_log' = log_download(download_log, Ticker, "error", 0, 0, "cascade")
    /\ stats' = [stats EXCEPT !.errors = @ + 1]
    /\ outcome' = [outcome EXCEPT ![Ticker] = "error"]
    /\ i' = i + 1
    /\ pc' = "da_loop"
    /\ UNCHANGED <<ohlcv, tickers, env, outside, j, total_stored, primary_source,
                   sources_used, before>>

\* cascade_download: fetch_fn raises; `except Exception` sleeps and continues.
cd_fetch_raises ==
    /\ NotEnoughYet
    /\ \E ans \in Answers(Ticker, SOURCES[j]) :
          /\ Fetch(SOURCES[j], Ticker, ans).raised
          /\ calls' = Append(calls, Call(SOURCES[j], "raise", <<>>))
    /\ j' = j + 1
    /\ UNCHANGED <<ohlcv, tickers, download_log, env, outside, pc, i, total_stored,
                   primary_source, sources_used, stats, outcome, before>>

\* cascade_download: fetch_fn returns no rows.
cd_fetch_empty ==
    /\ NotEnoughYet
    /\ \E ans \in Answers(Ticker, SOURCES[j]) :
          LET f == Fetch(SOURCES[j], Ticker, ans)
          IN /\ ~f.raised
             /\ f.rows = <<>>
             /\ calls' = Append(calls, Call(SOURCES[j], "empty", <<>>))
    /\ j' = j + 1
    /\ UNCHANGED <<ohlcv, tickers, download_log, env, outside, pc, i, total_stored,
                   primary_source, sources_used, stats, outcome, before>>

\* cascade_download: fetch_fn returns rows and store_ohlcv stores them.
cd_fetch_rows ==
    /\ NotEnoughYet
    /\ \E ans \in Answers(Ticker, SOURCES[j]) :
          LET f == Fetch(SOURCES[j], Ticker, ans)
              s == store_ohlcv(ohlcv, f.rows)
          IN /\ ~f.raised
             /\ f.rows # <<>>
             /\ ~s.raised
             /\ ohlcv' = s.db
             /\ total_stored' = total_stored + s.rowcount
             /\ sources_used' = Append(sources_used, <<SOURCES[j], s.rowcount>>)
             /\ primary_source' = NextPrimary(primary_source, SOURCES[j])
             /\ calls' = Append(calls, Call(SOURCES[j], "rows", f.rows))
    /\ j' = j + 1
    /\ UNCHANGED <<tickers, download_log, env, outside, pc, i, stats, outcome, before>>

\* cascade_download: fetch_fn returns rows and store_ohlcv raises on one of
\* them; the error leaves cascade_download and download_all's
\* `except Exception` logs it, whose commit keeps the rows executed so far.
cd_store_raises ==
    /\ NotEnoughYet
    /\ \E ans \in Answers(Ticker, SOURCES[j]) :
          LET f == Fetch(SOURCES[j], Ticker, ans)
              s == store_ohlcv(ohlcv, f.rows)
          IN /\ ~f.raised
             /\ f.rows # <<>>
             /\ s.raised
             /\ ohlcv' = s.db
             /\ calls' = Append(calls, Call(SOURCES[j], "rejected", f.rows))
    /\ download_log' = log_download(download_log, Ticker, "error", 0, 0, "cascade")
    /\ stats' = [stats EXCEPT !.errors = @ + 1]
    /\ outcome' = [outcome EXCEPT ![Ticker] = "error"]
    /\ i' = i + 1
    /\ pc' = "da_loop"
    /\ UNCHANGED <<tickers, env, outside, j, total_stored, primary_source, sources_used, before>>

\* A final check that gives the run up on an instrument without data.
da_final_empty_stop ==
    /\ pc = "final"
    /\ Coverage(ohlcv, Ticker).count = 0
    /\ download_log' = log_download(download_log, Ticker, "empty", 0, 0, "cascade")
    /\ stats' = [stats EXCEPT !.empty = @ + 1]
    /\ outcome' = [outcome EXCEPT ![Ticker] = "empty"]
    /\ i' = i + 1
    /\ pc' = "done"
    /\ UNCHANGED <<ohlcv, tickers, env, outside, j, total_stored, primary_source,
                   sources_used, calls, before>>

\* download_all, final check: `if final_count == 0`
da_final_empty ==
    /\ pc = "final"
    /\ Coverage(ohlcv, Ticker).count = 0
    /\ download_log' = log_download(download_log, Ticker, "empty", 0, 0, "cascade")
    /\ stats' = [stats EXCEPT !.empty = @ + 1]
    /\ outcome' = [outcome EXCEPT ![Ticker] = "empty"]
    /\ i' = i + 1
    /\ pc' = "da_loop"
    /\ UNCHANGED <<ohlcv, tickers, env, outside, j, total_stored, primary_source,
                   sources_used, calls, before>>

\* download_all, final check: mark_downloaded, log_download "ok", then
\* success or partial by `final_years >= min_years`.
da_final_ok ==
    /\ pc = "final"
    /\ LET c == Coverage(ohlcv, Ticker)
       IN /\ c.count # 0
          /\ tickers' = mark_downloaded(tickers, Ticker, c.count, primary_source)
          /\ download_log' = log_download(download_log, Ticker, "ok", total_stored, c.count, "cascade")
          /\ stats' = [stats EXCEPT ![Classify(c.count, c.years, args.min_years)] = @ + 1,
                                    !.total_bars = @ + total_stored]
          /\ outcome' = [outcome EXCEPT ![Ticker] = Classify(c.count, c.years, args.min_years)]
    /\ i' = i + 1
    /\ pc' = "da_loop"
    /\ UNCHANGED <<ohlcv, env, outside, j, total_stored, primary_source, sources_used, calls, before>>

\* A KeyboardInterrupt handler that goes on with the next instrument.
da_interrupt_continue ==
    /\ pc \in {"cascade", "final"}
    /\ pc' = "da_loop"
    /\ i' = i + 1
    /\ UNCHANGED <<ohlcv, tickers, download_log, env, outside, j, total_stored,
                   primary_source, sources_used, stats, outcome, calls, before>>

\* download_all: KeyboardInterrupt inside the try block breaks the loop.
da_interrupt ==
    /\ pc \in {"cascade", "final"}
    /\ pc' = "done"
    /\ UNCHANGED <<ohlcv, tickers, download_log, env, outside, i, j, total_stored,
                   primary_source, sources_used, stats, outcome, calls, before>>

\* download_all: the list is exhausted, `return stats`.
da_return ==
    /\ pc = "da_loop"
    /\ i > Len(tickerlist)
    /\ pc' = "done"
    /\ UNCHANGED <<ohlcv, tickers, download_log, env, outside, i, j, total_stored,
                   primary_source, sources_used, stats, outcome, calls, before>>

\* download_all is not running; the bars and the audit log are db and lg.
CascadeOver(db, lg) ==
    /\ tickerlist = <<>>
    /\ feed = "distinct"
    /\ SingleRun
    /\ ohlcv = db
    /\ tickers = NewTickers
    /\ download_log = lg
    /\ args = [force |-> FALSE, min_years |-> MIN_YEARS, skip_sources |-> {}]
    /\ pc = "done"
    /\ i = 1
    /\ j = 1
    /\ total_stored = 0
    /\ primary_source = None
    /\ sources_used = <<>>
    /\ stats = CascadeStats
    /\ outcome = [t \in TickerSet |-> "none"]
    /\ calls = <<>>
    /\ before = ohlcv

\* download_all is not running and never ran.
CascadeIdle == CascadeOver(EmptyTable, <<>>)

Next ==
    \/ da_skip
    \/ da_begin
    \/ cd_skip
    \/ cd_enough
    \/ cd_exhausted
    \/ cd_fetch_raises
    \/ cd_fetch_empty
    \/ cd_fetch_rows
    \/ cd_store_raises
    \/ da_final_empty
    \/ da_final_ok
    \/ da_interrupt
    \/ da_return

Spec == Init /\ [][Next]_vars

(***************************************************************************)
(* Retry loops: _http_get (scraper_cascade.py), _byma_request              *)
(* (scraper_byma.py), APIClient._request and YahooClient._request          *)
(* (scraper.py)                                                            *)
(***************************************************************************)
\* The adapters of the cascade that go through _http_get.
HttpAdapters == {"fetch_byma", "fetch_yahoo", "fetch_analisistecnico"}

\* The retry loops called on their own.
RetryLoops == {"_byma_request", "APIClient._request", "YahooClient._request"}

HttpCodes == {400, 401, 403, 404, 429, 503}

\* What one urlopen does: it answers 200 with a body, it raises HTTPError
\* with a status code, or it raises URLError, TimeoutError or ConnectionError.
UrlopenOutcomes ==
    {[kind |-> "ok", code |-> 200], [kind |-> "urlerror", code |-> 0]}
    \cup {[kind |-> "http", code |-> c] : c \in HttpCodes}

\* The `except HTTPError` branch that returns None at once: `e.code in
\* (400, 404)` in _http_get, `e.code == 400` in _byma_request, `e.code ==
\* 404` in YahooClient._request; APIClient._request has no such branch (its
\* `except URLError` takes every HTTPError).
NoRetryCodes(fn) ==
    CASE fn \in HttpAdapters           -> {400, 404}
      [] fn = "_byma_request"          -> {400}
      [] fn = "YahooClient._request"   -> {404}
      [] fn = "APIClient._request"     -> {}

\* RETRY_BACKOFF of the module of fn.
BackoffOf(fn) ==
    IF fn \in {"APIClient._request", "YahooClient._request"}
    THEN RETRY_BACKOFF_scraper ELSE RETRY_BACKOFF

ReturnsAtOnce(fn, r) ==
    \/ r.kind = "ok"
    \/ r.kind = "http" /\ r.code \in NoRetryCodes(fn)

\* A retry loop, or an adapter about to call _http_get, is entered.
h_enter ==
    /\ h_pc = "idle"
    /\ \E fn \in HttpAdapters \cup RetryLoops : h_fn' = fn
    /\ h_pc' = "attempt"
    /\ h_call' = 1
    /\ attempt' = 0
    /\ last_error' = NoError
    /\ resps' = <<>>
    /\ sleeps' = <<>>
    /\ UNCHANGED <<cvars, svars, rvars, xvars>>

\* urlopen answers, or raises an HTTPError of the return-None branch.
h_return ==
    /\ h_pc = "attempt"
    /\ \E r \in UrlopenOutcomes :
          /\ ReturnsAtOnce(h_fn, r)
          /\ resps' = Append(resps, r)
    /\ h_pc' = "returned"
    /\ UNCHANGED <<h_fn, h_call, attempt, last_error, sleeps, cvars, svars, rvars, xvars>>

\* urlopen raises and it is not the last iteration: sleep, next attempt.
h_retry ==
    /\ h_pc = "attempt"
    /\ attempt < MAX_RETRIES - 1
    /\ \E r \in UrlopenOutcomes :
          /\ ~ReturnsAtOnce(h_fn, r)
          /\ resps' = Append(resps, r)
          /\ last_error' = r
    /\ sleeps' = Append(sleeps, BackoffOf(h_fn)[attempt + 1])
    /\ attempt' = attempt + 1
    /\ UNCHANGED <<h_fn, h_pc, h_call, cvars, svars, rvars, xvars>>

\* urlopen raises in the last iteration of fetch_yahoo's first _http_get
\* call: _http_get raises last_error, `except Exception` calls it again.
h_fallback ==
    /\ h_pc = "attempt"
    /\ attempt = MAX_RETRIES - 1
    /\ h_fn = "fetch_yahoo"
    /\ h_call = 1
    /\ \E r \in UrlopenOutcomes :
          /\ ~ReturnsAtOnce(h_fn, r)
          /\ resps' = Append(resps, r)
    /\ h_call' = 2
    /\ attempt' = 0
    /\ last_error' = NoError
    /\ UNCHANGED <<h_fn, h_pc, sleeps, cvars, svars, rvars, xvars>>

\* A last iteration that sleeps before it raises.
h_raise_after_sleep ==
    /\ h_pc = "attempt"
    /\ attempt = MAX_RETRIES - 1
    /\ ~(h_fn = "fetch_yahoo" /\ h_call = 1)
    /\ \E r \in UrlopenOutcomes :
          /\ ~ReturnsAtOnce(h_fn, r)
          /\ resps' = Append(resps, r)
          /\ last_error' = r
    /\ sleeps' = Append(sleeps, BackoffOf(h_fn)[attempt + 1])
    /\ h_pc' = "raised"
    /\ UNCHANGED <<h_fn, h_call, attempt, cvars, svars, rvars, xvars>>

\* urlopen raises in the last iteration: `raise last_error`.
h_raise ==
    /\ h_pc = "attempt"
    /\ attempt = MAX_RETRIES - 1
    /\ ~(h_fn = "fetch_yahoo" /\ h_call = 1)
    /\ \E r \in UrlopenOutcomes :
          /\ ~ReturnsAtOnce(h_fn, r)
          /\ resps' = Append(resps, r)
          /\ last_error' = r
    /\ h_pc' = "raised"
    /\ UNCHANGED <<h_fn, h_call, attempt, sleeps, cvars, svars, rvars, xvars>>

\* The caller goes on; the locals of the call are gone.
h_leave ==
    /\ h_pc \in {"returned", "raised"}
    /\ h_fn' = None
    /\ h_pc' = "idle"
    /\ h_call' = 1
    /\ attempt' = 0
    /\ last_error' = NoError
    /\ resps' = <<>>
    /\ sleeps' = <<>>
    /\ UNCHANGED <<cvars, svars, rvars, xvars>>

InitHttp ==
    /\ CascadeIdle
    /\ StoreIdle
    /\ RestIdle
    /\ SyncIdle
    /\ HttpIdle

NextHttp ==
    \/ h_enter
    \/ h_return
    \/ h_retry
    \/ h_fallback
    \/ h_raise
    \/ h_leave

SpecHttp == InitHttp /\ [][NextHttp]_vars

(***************************************************************************)
(* Direct calls of store_ohlcv                                             *)
(***************************************************************************)
\* The rows of a direct call: one instrument, one date, row_index 0 or 1,
\* two prices or a null OHLC.
StoreRows ==
    {Row("GGAL", 1, o, 7, ri, SOURCE_AT) : o \in {100, 101, NULL}, ri \in {0, 1}}

Batches == UNION {[1..n -> StoreRows] : n \in 1..MaxBatch}

\* store_ohlcv(conn, rows)
st_store ==
    /\ \E rows \in Batches :
          LET s == store_ohlcv(ohlcv, rows)
          IN /\ ohlcv' = s.db
             /\ st_raised' = s.raised
             /\ batch' = rows
    /\ before' = ohlcv
    /\ UNCHANGED <<crest, hvars, rvars, xvars>>

InitStore ==
    /\ CascadeIdle
    /\ StoreIdle
    /\ RestIdle
    /\ SyncIdle
    /\ HttpIdle

NextStore == st_store

SpecStore == InitStore /\ [][NextStore]_vars

(***************************************************************************)
(* Registry reconciliation: load_tickers_from_csv                          *)
(***************************************************************************)
MaxList == 2

\* name, trading_type and description of a CSV row.
Profiles ==
    {[name |-> "n1", trading_type |-> "STOCK", description |-> ""],
     [name |-> "n2", trading_type |-> "STOCK", description |-> ""],
     [name |-> "n1", trading_type |-> "BOND",  description |-> "d"]}

\* A CSV row as csv.DictReader returns it: every cell a string.
CsvRow(id, ticker, p, enabled) ==
    [id |-> id, ticker |-> ticker, name |-> p.name, trading_type |-> p.trading_type,
     enabled |-> enabled, description |-> p.description]

\* The rows a CSV file of catalog c may hold.  A "full" file has rows of
\* every kind for GGAL and plain rows for YPFD; a "short" file has two kinds
\* of rows.
CsvRows(c) ==
    IF c = "full"
    THEN {CsvRow(id, "GGAL", p, e) :
             id \in {"", "0", "1", "2"}, p \in Profiles, e \in {"true", "false"}}
         \cup {CsvRow(id, "YPFD", [name |-> "n1", trading_type |-> "STOCK", description |-> ""], e) :
                  id \in {"", "0", "1", "2"}, e \in {"true", "false"}}
    ELSE IF c = "short"
    THEN {CsvRow("", t, [name |-> "n2", trading_type |-> "STOCK", description |-> ""], "false") :
             t \in TickerSet}
    ELSE IF c = "plain"
    THEN {CsvRow(id, t, [name |-> "n1", trading_type |-> "STOCK", description |-> ""], e) :
             id \in {"", "1"}, t \in TickerSet, e \in {"true", "false"}}
    ELSE IF c = "cases"
    THEN {CsvRow(id, t, [name |-> "n1", trading_type |-> "STOCK", description |-> ""], e) :
             id \in {"", "1"}, t \in {"GGAL", "ggal"}, e \in {"true", "false"}}
    ELSE {}

\* str.upper() of a ticker cell.
upper(cell) == IF cell = "ggal" THEN "GGAL" ELSE cell

\* The CSV files: up to MaxList rows, in any order, a ticker possibly on
\* several rows.
CsvFiles(c) == UNION {[1..n -> CsvRows(c)] : n \in 1..MaxList}

\* int(row.get("id", 0) or 0)
IntOrZero(cell) ==
    CASE cell = ""  -> 0
      [] cell = "0" -> 0
      [] cell = "1" -> 1
      [] cell = "2" -> 2

\* enabled_str in ("true", "1", "yes")
ParseEnabled(cell) == cell \in {"true", "1", "yes"}

\* SELECT COALESCE(MAX(id), 0) FROM tickers
MaxId(reg) ==
    IF DOMAIN reg = {} THEN 0 ELSE SetMax({reg[t].id : t \in DOMAIN reg})

\* The id of the INSERT as the number of rows plus one.
RowIdByCount(reg, row) ==
    IF IntOrZero(row.id) = 0 THEN Cardinality(DOMAIN reg) + 1 ELSE IntOrZero(row.id)

\* The id of the INSERT: the one of the row, or max_id + 1.
RowId(reg, row) ==
    IF IntOrZero(row.id) = 0 THEN MaxId(reg) + 1 ELSE IntOrZero(row.id)

\* The INSERT fails: the ticker is new and the id is the one of another
\* row (UNIQUE constraint failed: tickers.id).  A conflict on the ticker
\* takes the DO UPDATE branch whatever the id is.
IdConflict(reg, row) ==
    /\ row.ticker \notin DOMAIN reg
    /\ \E t \in DOMAIN reg : reg[t].id = RowId(reg, row)

\* An upsert whose DO UPDATE also sets id = excluded.id.
UpsertTakesId(reg, row) ==
    [t \in (DOMAIN reg) \cup {row.ticker} |->
        IF t # row.ticker THEN reg[t]
        ELSE Instrument(RowId(reg, row), row.name, row.trading_type,
                        ParseEnabled(row.enabled), row.description)]

\* An upsert that also disables every other instrument.
UpsertDisablingOthers(reg, row) ==
    [t \in (DOMAIN reg) \cup {row.ticker} |->
        IF t # row.ticker THEN [reg[t] EXCEPT !.enabled = FALSE]
        ELSE Instrument(IF t \in DOMAIN reg THEN reg[t].id ELSE RowId(reg, row),
                        row.name, row.trading_type, ParseEnabled(row.enabled),
                        row.description)]

\* INSERT ... ON CONFLICT(ticker) DO UPDATE SET name, trading_type,
\* settlement_type, enabled, description: a new ticker gets the id, a known
\* one keeps its own.
Upsert(reg, row) ==
    [t \in (DOMAIN reg) \cup {row.ticker} |->
        IF t # row.ticker THEN reg[t]
        ELSE Instrument(IF t \in DOMAIN reg THEN reg[t].id ELSE RowId(reg, row),
                        row.name, row.trading_type, ParseEnabled(row.enabled),
                        row.description)]

\* existing[ticker]: `row[5] or ""` reads a NULL description as "".
Existing(reg, t) ==
    [reg[t] EXCEPT !.description = IF @ = None THEN "" ELSE @]

\* A `changes` list without the test of the description.
ChangesNoDescription(old, row) ==
    (IF old.name # row.name THEN <<"name">> ELSE <<>>)
    \o (IF old.trading_type # row.trading_type THEN <<"trading_type">> ELSE <<>>)
    \o (IF old.enabled # ParseEnabled(row.enabled) THEN <<"enabled">> ELSE <<>>)

\* The `changes` list of a known ticker, in the order of the tests.
Changes(old, row) ==
    (IF old.name # row.name THEN <<"name">> ELSE <<>>)
    \o (IF old.trading_type # row.trading_type THEN <<"trading_type">> ELSE <<>>)
    \o (IF old.enabled # ParseEnabled(row.enabled) THEN <<"enabled">> ELSE <<>>)
    \o (IF old.description # row.description THEN <<"description">> ELSE <<>>)

\* A classification that reports DISABLED only when nothing else changed.
ClassifyRowStrict(res, existing, row) ==
    IF row.ticker \notin DOMAIN existing
    THEN [res EXCEPT !.new = Append(@, row.ticker)]
    ELSE LET old == Existing(existing, row.ticker)
         IN IF Changes(old, row) = <<"enabled">> /\ old.enabled
            THEN [res EXCEPT !.disabled = Append(@, row.ticker)]
            ELSE IF Changes(old, row) # <<>>
            THEN [res EXCEPT !.updated =
                     Append(@, [ticker |-> row.ticker, changes |-> Changes(old, row)])]
            ELSE [res EXCEPT !.unchanged = @ + 1]

\* "Classify change": against the table as it was when the call began.
ClassifyRow(res, existing, row) ==
    IF row.ticker \notin DOMAIN existing
    THEN [res EXCEPT !.new = Append(@, row.ticker)]
    ELSE LET old == Existing(existing, row.ticker)
         IN IF old.enabled /\ ~ParseEnabled(row.enabled)
            THEN [res EXCEPT !.disabled = Append(@, row.ticker)]
            ELSE IF Changes(old, row) # <<>>
            THEN [res EXCEPT !.updated =
                     Append(@, [ticker |-> row.ticker, changes |-> Changes(old, row)])]
            ELSE [res EXCEPT !.unchanged = @ + 1]

\* The tables an earlier run left: no instrument; GGAL enabled; GGAL
\* disabled and YPFD enabled with a NULL description.
RegistrySeeds ==
    {EmptyTable,
     [t \in {"GGAL"} |-> Instrument(1, "n1", "STOCK", TRUE, "")],
     [t \in {"GGAL", "YPFD"} |->
        IF t = "GGAL" THEN Instrument(2, "n1", "STOCK", FALSE, "")
        ELSE Instrument(1, "n1", "STOCK", TRUE, None)]}

\* load_tickers_from_csv: the file is read, `existing` is built.
lt_begin ==
    /\ r_pc = "idle"
    /\ r_run = 0
    /\ \E rows \in CsvFiles(catalog) : csv_rows' = rows
    /\ reg_before' = registry
    /\ result' = NewResult
    /\ r_k' = 1
    /\ r_run' = 1
    /\ r_pc' = "loop"
    /\ UNCHANGED <<registry, catalog, cvars, hvars, svars, xvars>>

\* One iteration of `for row in csv_rows`: upsert, then classify.
lt_row ==
    /\ r_pc = "loop"
    /\ r_k <= Len(csv_rows)
    /\ ~IdConflict(registry, csv_rows[r_k])
    /\ registry' = Upsert(registry, csv_rows[r_k])
    /\ result' = ClassifyRow(result, reg_before, csv_rows[r_k])
    /\ r_k' = r_k + 1
    /\ UNCHANGED <<catalog, csv_rows, reg_before, r_pc, r_run, cvars, hvars, svars, xvars>>

\* The INSERT raises sqlite3.IntegrityError, which leaves the function; the
\* rows written so far are in the open transaction.
lt_row_raises ==
    /\ r_pc = "loop"
    /\ r_k <= Len(csv_rows)
    /\ IdConflict(registry, csv_rows[r_k])
    /\ r_pc' = "raised"
    /\ UNCHANGED <<registry, catalog, csv_rows, reg_before, result, r_k, r_run,
                   cvars, hvars, svars, xvars>>

\* conn.commit(); return result
lt_return ==
    /\ r_pc = "loop"
    /\ r_k > Len(csv_rows)
    /\ r_pc' = "returned"
    /\ UNCHANGED <<registry, catalog, csv_rows, reg_before, result, r_k, r_run,
                   cvars, hvars, svars, xvars>>

\* An exit that commits the open transaction.
lt_exit_commits ==
    /\ r_pc = "raised"
    /\ r_pc' = "exited"
    /\ UNCHANGED <<registry, catalog, csv_rows, reg_before, result, r_k, r_run,
                   cvars, hvars, svars, xvars>>

\* main does not catch the error: the process ends and the open
\* transaction is rolled back.
lt_exit ==
    /\ r_pc = "raised"
    /\ registry' = reg_before
    /\ r_pc' = "exited"
    /\ UNCHANGED <<catalog, csv_rows, reg_before, result, r_k, r_run,
                   cvars, hvars, svars, xvars>>

\* A second run of --sync with the same file.
lt_again ==
    /\ r_pc = "returned"
    /\ r_run = 1
    /\ reg_before' = registry
    /\ result' = NewResult
    /\ r_k' = 1
    /\ r_run' = 2
    /\ r_pc' = "loop"
    /\ UNCHANGED <<registry, catalog, csv_rows, cvars, hvars, svars, xvars>>

\* The bars and the audit entry of an earlier download of GGAL.
LegacyBars ==
    store_ohlcv(EmptyTable, <<Row("GGAL", 1, 100, 7, 0, SOURCE_AT),
                              Row("GGAL", 732, 100, 7, 0, SOURCE_AT)>>).db

LegacyLog == log_download(<<>>, "GGAL", "ok", 2, 2, SOURCE_AT)

InitSync ==
    /\ CascadeOver(LegacyBars, LegacyLog)
    /\ StoreIdle
    /\ RestIdle
    /\ HttpIdle
    /\ registry \in RegistrySeeds
    /\ catalog = "full"
    /\ csv_rows = <<>>
    /\ reg_before = registry
    /\ result = NewResult
    /\ r_pc = "idle"
    /\ r_k = 1
    /\ r_run = 0

NextSync ==
    \/ lt_begin
    \/ lt_row
    \/ lt_row_raises
    \/ lt_return
    \/ lt_exit
    \/ lt_again

SpecSync == InitSync /\ [][NextSync]_vars

\* --sync with a CSV file edited by hand: a ticker may be written in lower
\* case.
InitCases ==
    /\ CascadeOver(LegacyBars, LegacyLog)
    /\ StoreIdle
    /\ RestIdle
    /\ HttpIdle
    /\ registry \in RegistrySeeds
    /\ catalog = "cases"
    /\ csv_rows = <<>>
    /\ reg_before = registry
    /\ result = NewResult
    /\ r_pc = "idle"
    /\ r_k = 1
    /\ r_run = 0

SpecCases == InitCases /\ [][NextSync]_vars

(***************************************************************************)
(* Two processes run --sync on one database file at the same time, each    *)
(* with its own connection (init_db: journal_mode=WAL, the default         *)
(* deferred transactions of sqlite3, the default busy timeout of 5 s) and  *)
(* its own CSV file of new tickers without id.                             *)
(***************************************************************************)
Writers == {"p1", "p2"}

\* The tickers the CSV file of each process may list, in the order of the
\* file: none of them is in the table, no two processes share one.
NewSymbols == [p1 |-> <<"ALUA", "BMA">>, p2 |-> <<"PAMP", "TXAR">>]

\* A CSV file of process w: the first n of its tickers, each without id.
NewFile(w, n) ==
    [m \in 1..n |->
        CsvRow("", NewSymbols[w][m],
               [name |-> "n1", trading_type |-> "STOCK", description |-> ""], "true")]

\* Table tickers as the connection of w reads it: its own uncommitted rows
\* are in it, those of the other process are not.
ViewOf(w) == IF w_lock = w THEN w_view[w] ELSE registry

\* The INSERT of a new ticker with an id another row has: UNIQUE constraint
\* failed: tickers.id.
IdTaken(reg, row, id) ==
    /\ row.ticker \notin DOMAIN reg
    /\ \E t \in DOMAIN reg : reg[t].id = id

\* The upsert with the row_id computed before it.
UpsertAs(reg, row, id) ==
    [t \in (DOMAIN reg) \cup {row.ticker} |->
        IF t # row.ticker THEN reg[t]
        ELSE Instrument(IF t \in DOMAIN reg THEN reg[t].id ELSE id,
                        row.name, row.trading_type, ParseEnabled(row.enabled),
                        row.description)]

\* "Auto-assign ID if missing or 0": SELECT COALESCE(MAX(id), 0) + 1, read
\* before the INSERT and outside of it.
cw_max_id(w) ==
    /\ w_pc[w] = "max_id"
    /\ LET row == w_csv[w][w_k[w]]
           id  == RowId(ViewOf(w), row)
       IN /\ w_row_id' = [w_row_id EXCEPT ![w] = id]
          /\ w_assigned' = [w_assigned EXCEPT ![w] =
                               IF IntOrZero(row.id) = 0
                               THEN [t \in (DOMAIN @) \cup {row.ticker} |->
                                        IF t = row.ticker THEN id ELSE @[t]]
                               ELSE @]
    /\ w_pc' = [w_pc EXCEPT ![w] = "insert"]
    /\ UNCHANGED <<w_csv, w_k, w_view, w_lock, w_error, rvars, cvars, hvars, svars,
                   kvars, tvars, ivars>>

\* The INSERT: it begins the transaction of the connection if none is open
\* and takes the write lock, which the other process must not hold.
cw_insert(w) ==
    /\ w_pc[w] = "insert"
    /\ w_lock \in {None, w}
    /\ ~IdTaken(ViewOf(w), w_csv[w][w_k[w]], w_row_id[w])
    /\ w_view' = [w_view EXCEPT ![w] = UpsertAs(ViewOf(w), w_csv[w][w_k[w]], w_row_id[w])]
    /\ w_lock' = w
    /\ w_k' = [w_k EXCEPT ![w] = @ + 1]
    /\ w_pc' = [w_pc EXCEPT ![w] = IF w_k[w] = Len(w_csv[w]) THEN "commit" ELSE "max_id"]
    /\ UNCHANGED <<w_csv, w_row_id, w_error, w_assigned, rvars, cvars, hvars, svars,
                   kvars, tvars, ivars>>

\* The INSERT raises sqlite3.IntegrityError: the id is the one of a row the
\* other process committed since it was read.  main does not catch it; the
\* process ends and its transaction is rolled back.
cw_insert_raises(w) ==
    /\ w_pc[w] = "insert"
    /\ w_lock \in {None, w}
    /\ IdTaken(ViewOf(w), w_csv[w][w_k[w]], w_row_id[w])
    /\ w_error' = [w_error EXCEPT ![w] = "IntegrityError"]
    /\ w_pc' = [w_pc EXCEPT ![w] = "exited"]
    /\ w_lock' = None
    /\ UNCHANGED <<w_csv, w_k, w_row_id, w_view, w_assigned, rvars, cvars, hvars, svars,
                   kvars, tvars, ivars>>

\* The INSERT waits for the write lock the other process holds until the
\* busy timeout is over: sqlite3.OperationalError, database is locked.
cw_insert_locked(w) ==
    /\ w_pc[w] = "insert"
    /\ w_lock \notin {None, w}
    /\ w_error' = [w_error EXCEPT ![w] = "OperationalError"]
    /\ w_pc' = [w_pc EXCEPT ![w] = "exited"]
    /\ UNCHANGED <<w_csv, w_k, w_row_id, w_view, w_lock, w_assigned, rvars, cvars, hvars,
                   svars, kvars, tvars, ivars>>

\* conn.commit(); return result
cw_commit(w) ==
    /\ w_pc[w] = "commit"
    /\ w_lock = w
    /\ registry' = w_view[w]
    /\ w_lock' = None
    /\ w_pc' = [w_pc EXCEPT ![w] = "returned"]
    /\ UNCHANGED <<w_csv, w_k, w_row_id, w_view, w_error, w_assigned, catalog, csv_rows,
                   reg_before, result, r_pc, r_k, r_run, cvars, hvars, svars, kvars, tvars, ivars>>

InitWriters ==
    /\ CascadeOver(LegacyBars, LegacyLog)
    /\ StoreIdle
    /\ HttpIdle
    /\ ScraperIdle
    /\ PaceIdle
    /\ IolIdle
    /\ registry \in RegistrySeeds
    /\ catalog = "none"
    /\ csv_rows = <<>>
    /\ reg_before = registry
    /\ result = NewResult
    /\ r_pc = "idle"
    /\ r_k = 1
    /\ r_run = 0
    /\ w_csv \in {[w \in Writers |-> NewFile(w, n[w])] : n \in [Writers -> 1..MaxList]}
    /\ w_pc = [w \in Writers |-> "max_id"]
    /\ w_k = [w \in Writers |-> 1]
    /\ w_row_id = [w \in Writers |-> 0]
    /\ w_view = [w \in Writers |-> registry]
    /\ w_lock = None
    /\ w_error = [w \in Writers |-> None]
    /\ w_assigned = [w \in Writers |-> EmptyTable]

NextWriters ==
    \/ \E w \in Writers : cw_max_id(w)
    \/ \E w \in Writers : cw_insert(w)
    \/ \E w \in Writers : cw_insert_raises(w)
    \/ \E w \in Writers : cw_insert_locked(w)
    \/ \E w \in Writers : cw_commit(w)

SpecWriters == InitWriters /\ [][NextWriters]_vars

(***************************************************************************)
(* One operation of the core on a seeded database: a cascade run, a        *)
(* registry reconciliation, or the store_ohlcv call of a single-source     *)
(* run (download_all of scraper.py, scraper_byma.py, scraper_iol.py).      *)
(***************************************************************************)
InitCore ==
    /\ DownloadReady
    /\ SyncReady("short")
    /\ download_log = IF ohlcv = EmptyTable THEN <<>> ELSE LegacyLog

\* download_all has not begun.
NotBegun == pc = "da_loop" /\ i = 1 /\ calls = <<>> /\ stats = CascadeStats

NextCore ==
    \/ r_run = 0 /\ batch = <<>> /\ Next
    \/ NotBegun /\ batch = <<>> /\ NextSync
    \/ NotBegun /\ r_run = 0 /\ batch = <<>> /\ NextStore

SpecCore == InitCore /\ [][NextCore]_vars

\* download_all for --ticker GGAL with IOL and Yahoo skipped, the providers
\* sending payloads in which a date may repeat.
InitRepeats ==
    /\ tickerlist = <<"GGAL">>
    /\ feed = "repeats"
    /\ SingleRun
    /\ \E seed \in LegacySeeds(tickerlist[1]) :
          /\ ohlcv = seed.db
          /\ tickers = seed.tbl
    /\ download_log = <<>>
    /\ HttpIdle
    /\ StoreIdle
    /\ RestIdle
    /\ SyncIdle
    /\ args \in [force : BOOLEAN, min_years : MinYearsSet,
                  skip_sources : {{SOURCE_IOL, SOURCE_YAHOO}}]
    /\ pc = "da_loop"
    /\ i = 1
    /\ j = 1
    /\ total_stored = 0
    /\ primary_source = None
    /\ sources_used = <<>>
    /\ stats = CascadeStats
    /\ outcome = [t \in TickerSet |-> "none"]
    /\ calls = <<>>
    /\ before = ohlcv

SpecRepeats == InitRepeats /\ [][Next]_vars

(***************************************************************************)
(* Two runs of download_all in succession over a two-instrument list, the  *)
(* providers answering every fetch for an instrument with the same data.   *)
(***************************************************************************)
Entry(d, o, v) == [date |-> d, ohlc |-> o, volume |-> v]

Data(es) == [kind |-> "data", entries |-> es]

Failing == [kind |-> "error", entries |-> <<>>]

NoData == [kind |-> "nodata", entries |-> <<>>]

\* Two trading days 2 years apart.
ShortHistory == Data(<<Entry(1, 100, 7), Entry(732, 100, 7)>>)

\* Two trading days 6 years apart.
LongHistory == Data(<<Entry(1, 100, 7), Entry(2193, 100, 7)>>)

\* Two trading days 4 years apart.
LateHistory == Data(<<Entry(732, 100, 7), Entry(2193, 100, 7)>>)

\* A trading day followed by a day without prices.
HolidayHistory == Data(<<Entry(732, 100, 7), Entry(2193, NULL, 7)>>)

\* A day without prices after the first trading day.
EarlyHoliday == Data(<<Entry(1, 100, 7), Entry(732, NULL, 7)>>)

\* Two entries of one calendar date.
TwiceADay == Data(<<Entry(732, 100, 7), Entry(732, 100, 7)>>)

\* Two entries of the last calendar date.
TwiceLate == Data(<<Entry(2193, 100, 7), Entry(2193, 100, 7)>>)

\* What the providers hold for the two instruments.
Remotes ==
    {[t \in TickerSet |->
        IF t = "GGAL"
        THEN [s \in SourceNames |->
                CASE s = SOURCE_BYMA  -> g[1]
                  [] s = SOURCE_IOL   -> g[2]
                  [] s = SOURCE_YAHOO -> g[3]
                  [] s = SOURCE_AT    -> g[4]]
        ELSE [s \in SourceNames |-> y]] :
     g \in {Failing, NoData, ShortHistory, LongHistory, HolidayHistory, EarlyHoliday}
            \X {NoData, ShortHistory}
            \X {Failing, LongHistory}
            \X {NoData, TwiceADay, TwiceLate, LateHistory},
     y \in {Failing, NoData, LongHistory, HolidayHistory}}

\* main is about to call download_all for the first of two runs.
InitRuns ==
    /\ tickerlist = <<"GGAL", "YPFD">>
    /\ feed = "repeats"
    /\ remote \in Remotes
    /\ reruns = 1
    /\ first = NoFirst
    /\ \E seed \in LegacySeeds(tickerlist[1]) :
          /\ ohlcv = seed.db
          /\ tickers = seed.tbl
    /\ download_log = <<>>
    /\ HttpIdle
    /\ StoreIdle
    /\ RestIdle
    /\ SyncIdle
    /\ args \in [force : BOOLEAN, min_years : MinYearsSet, skip_sources : SkipSets]
    /\ pc = "da_loop"
    /\ i = 1
    /\ j = 1
    /\ total_stored = 0
    /\ primary_source = None
    /\ sources_used = <<>>
    /\ stats = CascadeStats
    /\ outcome = [t \in TickerSet |-> "none"]
    /\ calls = <<>>
    /\ before = ohlcv

\* The run went through its whole list; main is called again with the same
\* arguments and calls download_all.
da_again ==
    /\ pc = "done"
    /\ i > Len(tickerlist)
    /\ reruns > 0
    /\ reruns' = reruns - 1
    /\ first' = [db |-> ohlcv, log |-> download_log, outcome |-> outcome]
    /\ pc' = "da_loop"
    /\ i' = 1
    /\ j' = 1
    /\ total_stored' = 0
    /\ primary_source' = None
    /\ sources_used' = <<>>
    /\ stats' = CascadeStats
    /\ outcome' = [t \in TickerSet |-> "none"]
    /\ calls' = <<>>
    /\ before' = ohlcv
    /\ UNCHANGED <<ohlcv, tickers, download_log, args, tickerlist, feed, remote, outside>>

NextRuns ==
    \/ Next
    \/ da_again

SpecRuns == InitRuns /\ [][NextRuns]_vars

\* The two runs without a KeyboardInterrupt.  download_all is one
\* sequential loop of blocking calls that all return (urlopen has a
\* timeout, time.sleep ends), so a step that can be taken is taken.
NextUncancelled ==
    \/ da_skip
    \/ da_begin
    \/ cd_skip
    \/ cd_enough
    \/ cd_exhausted
    \/ cd_fetch_raises
    \/ cd_fetch_empty
    \/ cd_fetch_rows
    \/ cd_store_raises
    \/ da_final_empty
    \/ da_final_ok
    \/ da_return
    \/ da_again

\* The runs with all four sources or with ByMA and analisistecnico only.
InitUncancelled ==
    /\ InitRuns
    /\ args.skip_sources \in {{}, {SOURCE_IOL, SOURCE_YAHOO}}

SpecUncancelled ==
    InitUncancelled /\ [][NextUncancelled]_vars /\ WF_vars(NextUncancelled)

(***************************************************************************)
(* One run of download_all for GGAL, every provider quoting its own price  *)
(* for the dates it has, so that a stored row shows whose write it is.     *)
(***************************************************************************)
\* The price source s quotes.
PriceOf(s) ==
    CASE s = SOURCE_BYMA  -> 100
      [] s = SOURCE_IOL   -> 101
      [] s = SOURCE_YAHOO -> 102
      [] s = SOURCE_AT    -> 103

\* The answer with the price p for every entry that has a price.
Priced(ans, p) ==
    [ans EXCEPT !.entries =
        [n \in DOMAIN @ |-> [@[n] EXCEPT !.ohlc = IF @ = NULL THEN NULL ELSE p]]]

\* A day without prices before a trading day.
LateHoliday == Data(<<Entry(1, NULL, 7), Entry(732, 100, 7)>>)

\* What the providers hold for GGAL; nothing is asked for YPFD.
OverlapRemotes ==
    {[t \in TickerSet |->
        [s \in SourceNames |->
            CASE s = SOURCE_BYMA  -> Priced(g[1], PriceOf(s))
              [] s = SOURCE_IOL   -> Priced(g[2], PriceOf(s))
              [] s = SOURCE_YAHOO -> Priced(g[3], PriceOf(s))
              [] s = SOURCE_AT    -> Priced(g[4], PriceOf(s))]] :
     g \in {Failing, NoData, ShortHistory, LateHistory, EarlyHoliday}
            \X {NoData, ShortHistory}
            \X {Failing, ShortHistory, LongHistory}
            \X {NoData, ShortHistory, TwiceADay, HolidayHistory, LateHoliday}}

InitOverlap ==
    /\ tickerlist = <<"GGAL">>
    /\ feed = "repeats"
    /\ remote \in OverlapRemotes
    /\ reruns = 0
    /\ first = NoFirst
    /\ \E seed \in LegacySeeds(tickerlist[1]) :
          /\ ohlcv = seed.db
          /\ tickers = seed.tbl
    /\ download_log = <<>>
    /\ HttpIdle
    /\ StoreIdle
    /\ RestIdle
    /\ SyncIdle
    /\ args \in [force : BOOLEAN, min_years : MinYearsSet, skip_sources : SkipSets]
    /\ pc = "da_loop"
    /\ i = 1
    /\ j = 1
    /\ total_stored = 0
    /\ primary_source = None
    /\ sources_used = <<>>
    /\ stats = CascadeStats
    /\ outcome = [t \in TickerSet |-> "none"]
    /\ calls = <<>>
    /\ before = ohlcv

SpecOverlap == InitOverlap /\ [][Next]_vars

(***************************************************************************)
(* scraper.py: main's SIGINT handler and the two phases of download_all    *)
(***************************************************************************)
\* The `tickers` argument of scraper.py's download_all.
ScraperList == <<"GGAL", "YPFD">>

\* What a download of one instrument comes to: bars stored, no rows and
\* queued for Yahoo, no rows and marked empty, or an error logged.
FetchOutcomes == {"ok", "queued", "empty", "error"}

\* download_all, phase 1: `not force and is_already_downloaded(conn, ticker)`;
\* the instrument is queued for Yahoo when it has no bars, else skipped.
p1_skip ==
    /\ k_pc = "phase1"
    /\ k_i <= Len(ScraperList)
    /\ \E queue \in BOOLEAN :
          yahoo_pending' = IF queue THEN Append(yahoo_pending, ScraperList[k_i])
                           ELSE yahoo_pending
    /\ k_i' = k_i + 1
    /\ UNCHANGED <<k_pc, interrupted, sigints, started, cvars, hvars, svars, rvars, tvars, wvars, ivars>>

\* download_all, phase 1: the download of the instrument in turn begins.
p1_begin ==
    /\ k_pc = "phase1"
    /\ k_i <= Len(ScraperList)
    /\ k_pc' = "fetch1"
    /\ started' = Append(started, [ticker |-> ScraperList[k_i], phase |-> 1, sigints |-> sigints])
    /\ UNCHANGED <<k_i, yahoo_pending, interrupted, sigints, cvars, hvars, svars, rvars, tvars, wvars, ivars>>

\* download_all, phase 1: the body of the try block ends, one way or the other.
p1_end ==
    /\ k_pc = "fetch1"
    /\ \E r \in FetchOutcomes :
          yahoo_pending' = IF r = "queued" THEN Append(yahoo_pending, ScraperList[k_i])
                           ELSE yahoo_pending
    /\ k_i' = k_i + 1
    /\ k_pc' = "phase1"
    /\ UNCHANGED <<interrupted, sigints, started, cvars, hvars, svars, rvars, tvars, wvars, ivars>>

\* download_all: phase 1 is over; `if yahoo_client and yahoo_pending`.
p1_over ==
    /\ k_pc = "phase1"
    /\ k_i > Len(ScraperList)
    /\ k_pc' = IF yahoo_pending # <<>> THEN "phase2" ELSE "returned"
    /\ k_i' = 1
    /\ UNCHANGED <<yahoo_pending, interrupted, sigints, started, cvars, hvars, svars, rvars, tvars, wvars, ivars>>

\* download_all, phase 2: the Yahoo download of a pending instrument begins.
p2_begin ==
    /\ k_pc = "phase2"
    /\ k_i <= Len(yahoo_pending)
    /\ k_pc' = "fetch2"
    /\ started' = Append(started, [ticker |-> yahoo_pending[k_i], phase |-> 2, sigints |-> sigints])
    /\ UNCHANGED <<k_i, yahoo_pending, interrupted, sigints, cvars, hvars, svars, rvars, tvars, wvars, ivars>>

\* download_all, phase 2: the body of the try block ends.
p2_end ==
    /\ k_pc = "fetch2"
    /\ k_i' = k_i + 1
    /\ k_pc' = "phase2"
    /\ UNCHANGED <<yahoo_pending, interrupted, sigints, started, cvars, hvars, svars, rvars, tvars, wvars, ivars>>

\* download_all: `return stats`.
p2_over ==
    /\ k_pc = "phase2"
    /\ k_i > Len(yahoo_pending)
    /\ k_pc' = "returned"
    /\ UNCHANGED <<k_i, yahoo_pending, interrupted, sigints, started, cvars, hvars, svars, rvars, tvars, wvars, ivars>>

\* main's handle_sigint, installed while download_all runs: the first
\* signal sets `interrupted`, a second one calls sys.exit(1).
handle_sigint ==
    /\ k_pc \in {"phase1", "fetch1", "phase2", "fetch2"}
    /\ sigints' = sigints + 1
    /\ interrupted' = TRUE
    /\ k_pc' = IF interrupted THEN "exited" ELSE k_pc
    /\ UNCHANGED <<k_i, yahoo_pending, started, cvars, hvars, svars, rvars, tvars, wvars, ivars>>

\* main has installed handle_sigint and calls download_all.
InitSigint ==
    /\ CascadeIdle
    /\ HttpIdle
    /\ batch = <<>>
    /\ st_raised = FALSE
    /\ SyncIdle
    /\ PaceIdle
    /\ WritersIdle
    /\ IolIdle
    /\ k_pc = "phase1"
    /\ k_i = 1
    /\ yahoo_pending = <<>>
    /\ interrupted = FALSE
    /\ sigints = 0
    /\ started = <<>>

NextSigint ==
    \/ p1_skip
    \/ p1_begin
    \/ p1_end
    \/ p1_over
    \/ p2_begin
    \/ p2_end
    \/ p2_over
    \/ handle_sigint

SpecSigint == InitSigint /\ [][NextSigint]_vars

(***************************************************************************)
(* scraper.py: download_all on a database a prior run left, phase 1        *)
(* (analisistecnico) and phase 2 (Yahoo Finance)                           *)
(***************************************************************************)
\* DownloadStats.__init__
DownloadStats ==
    [success |-> 0, empty |-> 0, errors |-> 0, skipped |-> 0,
     yahoo_success |-> 0, yahoo_empty |-> 0, yahoo_errors |-> 0]

\* is_already_downloaded: the row of the ticker has a downloaded_at.
is_already_downloaded(tbl, t) == t \in DOMAIN tbl /\ tbl[t].downloaded_at

\* has_ohlcv_data: SELECT COUNT(*) FROM ohlcv WHERE ticker = ?, any row_index.
has_ohlcv_data(db, t) == \E k \in DOMAIN db : k[1] = t

\* client.get_history followed by process_history: _request raising leaves
\* the try block; a status other than "ok" gives no rows; every entry
\* becomes a row as it came, row_index counting the entries of one date.
process_history(t, ans) ==
    IF ans.kind = "error" THEN Raise
    ELSE IF ans.kind = "nodata" THEN Return(<<>>)
    ELSE Return([n \in DOMAIN ans.entries |->
                    Row(t, ans.entries[n].date, ans.entries[n].ohlc,
                        ans.entries[n].volume, RowIdx(ans.entries, n), SOURCE_AT)])

\* yahoo_client.get_history followed by process_yahoo_history: entries with
\* a null OHLC are skipped, `v or 0`, row_index 0.
process_yahoo_history(t, ans) ==
    IF ans.kind = "error" THEN Raise
    ELSE IF ans.kind = "nodata" THEN Return(<<>>)
    ELSE LET kept == SelectEntries(ans.entries)
         IN Return([n \in DOMAIN kept |->
                      Row(t, kept[n].date, kept[n].ohlc,
                          IF kept[n].volume = NULL THEN 0 ELSE kept[n].volume,
                          0, SOURCE_YAHOO)])

\* What analisistecnico and Yahoo may answer to a request of scraper.py.
ScraperAnswers(s) ==
    IF s = SOURCE_AT THEN {Failing, NoData, ShortHistory, EarlyHoliday}
    ELSE {Failing, NoData, ShortHistory}

\* The instrument in turn in phase 1.
ScraperTicker == tickerlist[k_i]

\* `not force and is_already_downloaded(conn, ticker)`
AlreadyDone(t) == ~args.force /\ is_already_downloaded(tickers, t)

\* A skip test that queues for Yahoo whatever is stored.
YahooEligibleAlways(t) == args.use_yahoo /\ args.trading_types[t] # "BOND"

\* `use_yahoo and not has_ohlcv_data(conn, ticker)` and `trading_type != "BOND"`
YahooEligible(t) ==
    args.use_yahoo /\ ~has_ohlcv_data(ohlcv, t) /\ args.trading_types[t] # "BOND"

\* Phase 1, an instrument already downloaded: queued for Yahoo, or skipped.
sd_skip ==
    /\ k_pc = "phase1"
    /\ k_i <= Len(tickerlist)
    /\ AlreadyDone(ScraperTicker)
    /\ IF YahooEligible(ScraperTicker)
       THEN /\ yahoo_pending' = Append(yahoo_pending, ScraperTicker)
            /\ UNCHANGED <<stats, outcome>>
       ELSE /\ stats' = [stats EXCEPT !.skipped = @ + 1]
            /\ outcome' = [outcome EXCEPT ![ScraperTicker] = "skipped"]
            /\ UNCHANGED yahoo_pending
    /\ k_i' = k_i + 1
    /\ UNCHANGED <<ohlcv, tickers, download_log, calls, k_pc, interrupted, sigints, started,
                   env, pc, i, j, total_stored, primary_source, sources_used, before,
                   hvars, svars, rvars, tvars, wvars, ivars>>

\* Phase 1, the try block for the instrument in turn: one request to
\* analisistecnico and what follows from its answer.
sd_phase1 ==
    /\ k_pc = "phase1"
    /\ k_i <= Len(tickerlist)
    /\ ~AlreadyDone(ScraperTicker)
    /\ calls' = Append(calls, [ticker |-> ScraperTicker, source |-> SOURCE_AT])
    /\ \E ans \in ScraperAnswers(SOURCE_AT) :
          LET t == ScraperTicker
              f == process_history(t, ans)
              s == store_ohlcv(ohlcv, f.rows)
          IN IF f.raised
             THEN /\ download_log' = log_download(download_log, t, "error", 0, 0, SOURCE_AT)
                  /\ stats' = [stats EXCEPT !.errors = @ + 1]
                  /\ outcome' = [outcome EXCEPT ![t] = "error"]
                  /\ UNCHANGED <<ohlcv, tickers, yahoo_pending>>
             ELSE IF f.rows = <<>>
             THEN IF args.use_yahoo /\ args.trading_types[t] # "BOND"
                  THEN /\ yahoo_pending' = Append(yahoo_pending, t)
                       /\ UNCHANGED <<ohlcv, tickers, download_log, stats, outcome>>
                  ELSE /\ download_log' = log_download(download_log, t, "empty", 0, 0, SOURCE_AT)
                       /\ tickers' = mark_downloaded(tickers, t, 0, SOURCE_AT)
                       /\ stats' = [stats EXCEPT !.empty = @ + 1]
                       /\ outcome' = [outcome EXCEPT ![t] = "empty"]
                       /\ UNCHANGED <<ohlcv, yahoo_pending>>
             ELSE IF s.raised
             THEN /\ ohlcv' = s.db
                  /\ download_log' = log_download(download_log, t, "error", 0, 0, SOURCE_AT)
                  /\ stats' = [stats EXCEPT !.errors = @ + 1]
                  /\ outcome' = [outcome EXCEPT ![t] = "error"]
                  /\ UNCHANGED <<tickers, yahoo_pending>>
             ELSE /\ ohlcv' = s.db
                  /\ tickers' = mark_downloaded(tickers, t, s.rowcount, SOURCE_AT)
                  /\ download_log' = log_download(download_log, t, "ok", Len(ans.entries),
                                                  s.rowcount, SOURCE_AT)
                  /\ stats' = [stats EXCEPT !.success = @ + 1]
                  /\ outcome' = [outcome EXCEPT ![t] = "success"]
                  /\ UNCHANGED yahoo_pending
    /\ k_i' = k_i + 1
    /\ UNCHANGED <<k_pc, interrupted, sigints, started, env, pc, i, j, total_stored,
                   primary_source, sources_used, before, hvars, svars, rvars, tvars, wvars, ivars>>

\* Phase 1 is over: `if yahoo_client and yahoo_pending`, else `return stats`.
sd_phase1_over ==
    /\ k_pc = "phase1"
    /\ k_i > Len(tickerlist)
    /\ k_pc' = IF args.use_yahoo /\ yahoo_pending # <<>> THEN "phase2" ELSE "returned"
    /\ k_i' = 1
    /\ UNCHANGED <<yahoo_pending, interrupted, sigints, started, cvars, hvars, svars, rvars,
                   tvars, wvars, ivars>>

\* Phase 2, the try block for a pending instrument: one request to Yahoo.
sd_phase2 ==
    /\ k_pc = "phase2"
    /\ k_i <= Len(yahoo_pending)
    /\ calls' = Append(calls, [ticker |-> yahoo_pending[k_i], source |-> SOURCE_YAHOO])
    /\ \E ans \in ScraperAnswers(SOURCE_YAHOO) :
          LET t == yahoo_pending[k_i]
              f == process_yahoo_history(t, ans)
              s == store_ohlcv(ohlcv, f.rows)
          IN IF f.raised
             THEN /\ download_log' = log_download(download_log, t, "error", 0, 0, SOURCE_YAHOO)
                  /\ stats' = [stats EXCEPT !.yahoo_errors = @ + 1, !.errors = @ + 1]
                  /\ outcome' = [outcome EXCEPT ![t] = "error"]
                  /\ UNCHANGED <<ohlcv, tickers>>
             ELSE IF f.rows = <<>>
             THEN /\ download_log' = log_download(download_log, t, "empty", 0, 0, SOURCE_YAHOO)
                  /\ tickers' = mark_downloaded(tickers, t, 0, SOURCE_YAHOO)
                  /\ stats' = [stats EXCEPT !.yahoo_empty = @ + 1, !.empty = @ + 1]
                  /\ outcome' = [outcome EXCEPT ![t] = "empty"]
                  /\ UNCHANGED ohlcv
             ELSE /\ ohlcv' = s.db
                  /\ tickers' = mark_downloaded(tickers, t, s.rowcount, SOURCE_YAHOO)
                  /\ download_log' = log_download(download_log, t, "ok", Len(f.rows),
                                                  s.rowcount, SOURCE_YAHOO)
                  /\ stats' = [stats EXCEPT !.yahoo_success = @ + 1, !.success = @ + 1]
                  /\ outcome' = [outcome EXCEPT ![t] = "success"]
    /\ k_i' = k_i + 1
    /\ UNCHANGED <<k_pc, yahoo_pending, interrupted, sigints, started, env, pc, i, j,
                   total_stored, primary_source, sources_used, before, hvars, svars, rvars,
                   tvars, wvars, ivars>>

\* `return stats`
sd_return ==
    /\ k_pc = "phase2"
    /\ k_i > Len(yahoo_pending)
    /\ k_pc' = "returned"
    /\ UNCHANGED <<k_i, yahoo_pending, interrupted, sigints, started, cvars, hvars, svars,
                   rvars, tvars, wvars, ivars>>

\* What a prior run left for one instrument: nothing; downloaded with two
\* bars; marked downloaded and empty; bars of a batch that failed, unmarked.
PriorStates == {"new", "stored", "empty", "unmarked"}

PriorBars(t, st) ==
    IF st \in {"stored", "unmarked"}
    THEN {<<t, 1, 0>>, <<t, 732, 0>>} ELSE {}

\* main calls download_all with the tickers of the CSV file.
InitScraper ==
    /\ tickerlist = ScraperList
    /\ \E prior \in [TickerSet -> PriorStates] :
          /\ ohlcv = [k \in UNION {PriorBars(t, prior[t]) : t \in TickerSet} |->
                        [ohlc |-> 100, volume |-> 7, data_source |-> SOURCE_AT]]
          /\ tickers = [t \in TickerSet |->
                          IF prior[t] = "stored"
                          THEN [downloaded_at |-> TRUE, bars_count |-> 2, data_source |-> SOURCE_AT]
                          ELSE IF prior[t] = "empty"
                          THEN [downloaded_at |-> TRUE, bars_count |-> 0, data_source |-> SOURCE_YAHOO]
                          ELSE NewTickers[t]]
    /\ first = [db |-> ohlcv, tbl |-> tickers]
    /\ args \in [force : BOOLEAN, use_yahoo : BOOLEAN,
                 trading_types : {[t \in TickerSet |-> IF t = "GGAL" THEN g ELSE "STOCK"] :
                                     g \in {"STOCK", "BOND"}}]
    /\ download_log = <<>>
    /\ stats = DownloadStats
    /\ outcome = [t \in TickerSet |-> "none"]
    /\ calls = <<>>
    /\ before = ohlcv
    /\ feed = "distinct"
    /\ remote = [t \in TickerSet |-> [s \in SourceNames |-> AnyAnswer]]
    /\ reruns = 0
    /\ pc = "done"
    /\ i = 1
    /\ j = 1
    /\ total_stored = 0
    /\ primary_source = None
    /\ sources_used = <<>>
    /\ HttpIdle
    /\ StoreIdle
    /\ SyncIdle
    /\ PaceIdle
    /\ WritersIdle
    /\ IolIdle
    /\ k_pc = "phase1"
    /\ k_i = 1
    /\ yahoo_pending = <<>>
    /\ interrupted = FALSE
    /\ sigints = 0
    /\ started = <<>>

NextScraper ==
    \/ sd_skip
    \/ sd_phase1
    \/ sd_phase1_over
    \/ sd_phase2
    \/ sd_return

SpecScraper == InitScraper /\ [][NextScraper]_vars

(***************************************************************************)
(* The pace of the outbound requests.  Time is counted in ticks of half a  *)
(* second and only as far back as the longest delay: an age stops growing  *)
(* at AgeCap.                                                              *)
(***************************************************************************)
TicksPerSecond == 2

\* The longest delay of the runs modelled: 4 seconds.
AgeCap == 8

\* d ticks pass: every age grows by d, up to AgeCap.
Elapse(ages, d) ==
    [k \in DOMAIN ages |->
        IF ages[k] = NULL THEN NULL
        ELSE IF ages[k] + d > AgeCap THEN AgeCap ELSE ages[k] + d]

\* The ticks urlopen may take before it returns or raises.
UrlopenTicks == {0, 1}

\* scraper.py: the APIClient of main (--delay, DEFAULT_DELAY = 1.5) and the
\* YahooClient of download_all (delay = 0.5).
Clients == {"api", "yahoo"}

\* time.sleep(wait) with wait = RETRY_BACKOFF[attempt] of scraper.py.
BackoffTicks(n) == RETRY_BACKOFF_scraper[n + 1] * TicksPerSecond

\* _throttle: `if elapsed < self.delay: time.sleep(self.delay - elapsed)`
ThrottleSleep(elapsed, delay) == IF elapsed < delay THEN delay - elapsed ELSE 0

\* _request is called on client c: _throttle, then
\* `self._last_request_time = time.time()`.
q_request ==
    /\ t_pc = "ready"
    /\ \E c \in Clients :
          LET w == ThrottleSleep(age_stamp[c], t_delay[c])
          IN /\ t_slept' = w
             /\ age_stamp' = [Elapse(age_stamp, w) EXCEPT ![c] = 0]
             /\ age_sent' = Elapse(age_sent, w)
             /\ t_who' = c
    /\ t_attempt' = 0
    /\ t_pc' = "attempt"
    /\ UNCHANGED <<t_call, t_j, t_delay, gap, cvars, hvars, svars, rvars, kvars, wvars, ivars>>

\* _request: urlopen sends the request and the response is read or, for
\* YahooClient, a 404 comes back: _request returns.
q_attempt_returns ==
    /\ t_pc = "attempt"
    /\ gap' = [to |-> t_who, ticks |-> age_sent[t_who]]
    /\ \E d \in UrlopenTicks :
          /\ age_sent' = Elapse([age_sent EXCEPT ![t_who] = 0], d)
          /\ age_stamp' = Elapse(age_stamp, d)
    /\ t_pc' = "ready"
    /\ UNCHANGED <<t_who, t_attempt, t_call, t_j, t_delay, t_slept, cvars, hvars, svars,
                   rvars, kvars, wvars, ivars>>

\* _request: urlopen sends the request and raises; the loop sleeps
\* RETRY_BACKOFF[attempt] and tries again, or the last error is raised.
q_attempt_fails ==
    /\ t_pc = "attempt"
    /\ gap' = [to |-> t_who, ticks |-> age_sent[t_who]]
    /\ \E d \in UrlopenTicks :
          LET w == IF t_attempt < MAX_RETRIES - 1 THEN d + BackoffTicks(t_attempt) ELSE d
          IN /\ age_sent' = Elapse([age_sent EXCEPT ![t_who] = 0], w)
             /\ age_stamp' = Elapse(age_stamp, w)
    /\ IF t_attempt < MAX_RETRIES - 1
       THEN t_attempt' = t_attempt + 1 /\ t_pc' = "attempt"
       ELSE t_attempt' = t_attempt /\ t_pc' = "ready"
    /\ UNCHANGED <<t_who, t_call, t_j, t_delay, t_slept, cvars, hvars, svars, rvars, kvars, wvars, ivars>>

\* Between two calls of a client: the rows are processed and stored.
q_tick ==
    /\ t_pc = "ready"
    /\ age_sent' = Elapse(age_sent, 1)
    /\ age_stamp' = Elapse(age_stamp, 1)
    /\ UNCHANGED <<t_pc, t_who, t_attempt, t_call, t_j, t_delay, t_slept, gap, cvars, hvars,
                   svars, rvars, kvars, wvars, ivars>>

\* main has built its APIClient and download_all its YahooClient:
\* _last_request_time = 0.0 is long ago, nothing was sent.
InitThrottle ==
    /\ CascadeIdle
    /\ HttpIdle
    /\ batch = <<>>
    /\ st_raised = FALSE
    /\ SyncIdle
    /\ ScraperIdle
    /\ WritersIdle
    /\ IolIdle
    /\ t_pc = "ready"
    /\ t_who = None
    /\ t_attempt = 0
    /\ t_call = 1
    /\ t_j = 1
    /\ t_delay \in {[c \in Clients |-> IF c = "api" THEN a ELSE 1] : a \in {3, AgeCap}}
    /\ t_slept = 0
    /\ age_stamp = [c \in Clients |-> AgeCap]
    /\ age_sent = [c \in Clients |-> NULL]
    /\ gap = [to |-> None, ticks |-> NULL]

NextThrottle ==
    \/ q_request
    \/ q_attempt_returns
    \/ q_attempt_fails
    \/ q_tick

SpecThrottle == InitThrottle /\ [][NextThrottle]_vars

(***************************************************************************)
(* The pace of the requests of scraper_cascade.py: cascade_download sleeps *)
(* `delay` after every fetch_fn call, _http_get sleeps between its         *)
(* attempts, and one instrument follows the other.                         *)
(***************************************************************************)
\* time.sleep(wait) with wait = RETRY_BACKOFF[attempt] of scraper_cascade.py.
CascadeBackoffTicks(n) == RETRY_BACKOFF[n + 1] * TicksPerSecond

\* cascade_download: the source in turn is passed over (it is in
\* skip_sources), or the coverage check breaks the loop and download_all
\* goes to its next instrument.
pa_pass ==
    /\ t_pc = "ready"
    /\ \E next \in {1, IF t_j = Len(SOURCES) THEN 1 ELSE t_j + 1} : t_j' = next
    /\ UNCHANGED <<t_pc, t_who, t_attempt, t_call, t_delay, t_slept, age_stamp, age_sent, gap,
                   cvars, hvars, svars, rvars, kvars, wvars, ivars>>

\* cascade_download: `rows = fetch_fn(ticker)`; the adapter is about to
\* send its first request.
pa_fetch ==
    /\ t_pc = "ready"
    /\ t_who' = SOURCES[t_j]
    /\ t_attempt' = 0
    /\ t_call' = 1
    /\ t_pc' = "attempt"
    /\ UNCHANGED <<t_j, t_delay, t_slept, age_stamp, age_sent, gap, cvars, hvars, svars,
                   rvars, kvars, wvars, ivars>>

\* The request is sent and answered (a body, or 400/404 for _http_get):
\* the adapter returns and cascade_download stores what it got.
pa_attempt_returns ==
    /\ t_pc = "attempt"
    /\ gap' = [to |-> t_who, ticks |-> age_sent[t_who]]
    /\ \E d \in UrlopenTicks : age_sent' = Elapse([age_sent EXCEPT ![t_who] = 0], d)
    /\ t_pc' = "sleep"
    /\ UNCHANGED <<t_who, t_attempt, t_call, t_j, t_delay, t_slept, age_stamp, cvars, hvars,
                   svars, rvars, kvars, wvars, ivars>>

\* The request is sent and fails.  fetch_iol returns []; _http_get sleeps
\* RETRY_BACKOFF[attempt] and tries again, or raises its last error, on
\* which fetch_yahoo calls _http_get a second time at once.
pa_attempt_fails ==
    /\ t_pc = "attempt"
    /\ gap' = [to |-> t_who, ticks |-> age_sent[t_who]]
    /\ LET retry    == t_who # SOURCE_IOL /\ t_attempt < MAX_RETRIES - 1
           fallback == t_who = SOURCE_YAHOO /\ t_call = 1 /\ ~retry
       IN /\ \E d \in UrlopenTicks :
                age_sent' = Elapse([age_sent EXCEPT ![t_who] = 0],
                                   IF retry THEN d + CascadeBackoffTicks(t_attempt) ELSE d)
          /\ t_attempt' = IF retry THEN t_attempt + 1 ELSE IF fallback THEN 0 ELSE t_attempt
          /\ t_call' = IF fallback THEN 2 ELSE t_call
          /\ t_pc' = IF retry \/ fallback THEN "attempt" ELSE "sleep"
    /\ UNCHANGED <<t_who, t_j, t_delay, t_slept, age_stamp, cvars, hvars, svars, rvars, kvars, wvars, ivars>>

\* cascade_download: time.sleep(delay) after the fetch, then the next
\* source, or the first source of download_all's next instrument.
pa_sleep ==
    /\ t_pc = "sleep"
    /\ age_sent' = Elapse(age_sent, t_delay[t_who])
    /\ t_j' = IF t_j = Len(SOURCES) THEN 1 ELSE t_j + 1
    /\ t_pc' = "ready"
    /\ UNCHANGED <<t_who, t_attempt, t_call, t_delay, t_slept, age_stamp, gap, cvars, hvars,
                   svars, rvars, kvars, wvars, ivars>>

\* download_all is called with --delay 0.5 (DEFAULT_DELAY) or --delay 4.
InitPacing ==
    /\ CascadeIdle
    /\ HttpIdle
    /\ batch = <<>>
    /\ st_raised = FALSE
    /\ SyncIdle
    /\ ScraperIdle
    /\ WritersIdle
    /\ IolIdle
    /\ t_pc = "ready"
    /\ t_who = None
    /\ t_attempt = 0
    /\ t_call = 1
    /\ t_j = 1
    /\ t_delay \in {[s \in SourceNames |-> d] : d \in {1, AgeCap}}
    /\ t_slept = 0
    /\ age_stamp = EmptyTable
    /\ age_sent = [s \in SourceNames |-> NULL]
    /\ gap = [to |-> None, ticks |-> NULL]

NextPacing ==
    \/ pa_pass
    \/ pa_fetch
    \/ pa_attempt_returns
    \/ pa_attempt_fails
    \/ pa_sleep

SpecPacing == InitPacing /\ [][NextPacing]_vars

(***************************************************************************)
(* Properties                                                              *)
(***************************************************************************)
\* The priority order the documentation gives: ByMA, IOL, Yahoo, analisistecnico.
Priority == <<"byma", "iol", "yahoo", "analisistecnico">>

PriorityOf(s) == CHOOSE n \in 1..Len(Priority) : Priority[n] = s

\* The dates of the row_index = 0 bars of instrument t.
Dates0(db, t) == {k[2] : k \in {q \in DOMAIN db : q[1] = t /\ q[3] = 0}}

\* The days between the first and the last row_index = 0 bar of t.
SpanDays(db, t) ==
    IF Dates0(db, t) = {} THEN 0 ELSE SetMax(Dates0(db, t)) - SetMin(Dates0(db, t))

\* t has a bar and its span is at least m years of 365.25 days.
HasCoverage(db, t, m) ==
    Dates0(db, t) # {} /\ SpanDays(db, t) * 4 >= m * DaysPer4Years

\* A fetch_fn call was made in this step.
CallMade == Len(calls') = Len(calls) + 1

NewCall == calls'[Len(calls')]

Failed(c) == c.result \in {"raise", "empty"}

\* The source of the first call that returned rows, None when none did.
FirstContributor(cs) ==
    IF \E k \in DOMAIN cs : cs[k].result = "rows"
    THEN cs[SetMin({k \in DOMAIN cs : cs[k].result = "rows"})].source
    ELSE None

\* The instrument in turn is covered and force is not set.
C1_Covered ==
    /\ pc = "da_loop"
    /\ i <= Len(tickerlist)
    /\ ~args.force
    /\ HasCoverage(ohlcv, tickerlist[i], args.min_years)

\* C1 (amended): in download_all with force=False, for an instrument whose
\* row_index=0 bars already span at least min_years when its turn comes, no
\* fetch function is called, no bar, instrument row or audit entry is
\* written, and the instrument is counted as skipped (stats.skipped), not
\* as success.
C1_EarlyExit ==
    [][C1_Covered =>
          /\ ohlcv' = ohlcv
          /\ calls' = calls
          /\ tickers' = tickers
          /\ download_log' = download_log
          /\ pc' = "da_loop"
          /\ i' = i + 1
          /\ outcome'[tickerlist[i]] = "skipped"
          /\ stats' = [stats EXCEPT !.skipped = @ + 1]]_vars

\* C1 as stated: ... and the outcome recorded for the instrument is
\* SUFFICIENT (the success counter of the run).
C1_Original ==
    [][C1_Covered =>
          /\ ohlcv' = ohlcv
          /\ calls' = calls
          /\ outcome'[tickerlist[i]] = "success"]_vars

C1_Witness ==
    /\ outcome["GGAL"] = "skipped"
    /\ HasCoverage(before, "GGAL", args.min_years)
    /\ ohlcv = before
    /\ calls = <<>>
    /\ download_log = <<>>

\* The sources after s in priority order that skip_sources leaves.
LaterEnabled(s) ==
    {n \in 1..Len(Priority) : n > PriorityOf(s) /\ Priority[n] \notin args.skip_sources}

C3_Order ==
    [][CallMade =>
          /\ calls' = Append(calls, NewCall)
          /\ NewCall.source \in SourceNames \ args.skip_sources
          /\ \A k \in DOMAIN calls : PriorityOf(calls[k].source) < PriorityOf(NewCall.source)
          /\ ~HasCoverage(ohlcv, tickerlist[i], args.min_years)]_vars

C3_Witness ==
    /\ Len(calls) = 4
    /\ \A k \in 1..4 : calls[k].source = Priority[k]
    /\ calls[4].result = "rows"
    /\ HasCoverage(ohlcv, "GGAL", args.min_years)

\* C4: the primary source of a cascade run is the first (highest-priority)
\* source whose call returned rows in that run, whatever later sources
\* returned, and it is the data_source download_all records on the
\* instrument.
C4_Primary ==
    [][/\ pc \in {"cascade", "final"} => primary_source = FirstContributor(calls)
       /\ pc' \in {"cascade", "final"} => primary_source' = FirstContributor(calls')
       /\ (pc = "final" /\ pc' = "da_loop"
              /\ outcome'[tickerlist[i]] \in {"success", "partial"}) =>
              tickers'[tickerlist[i]].data_source = FirstContributor(calls)]_vars

C4_Witness ==
    /\ Len(calls) >= 2
    /\ calls[1].result = "rows"
    /\ calls[2].result = "rows"
    /\ calls[2].span > calls[1].span
    /\ outcome["GGAL"] = "success"
    /\ ~HasCoverage(before, "GGAL", args.min_years)
    /\ tickers["GGAL"].data_source = calls[1].source

\* C5: the span between the first and the last row_index=0 bar of an
\* instrument (hence years_covered) is never smaller than it was when the
\* instrument's turn began, whatever the sources return.
C5_Monotone ==
    \A t \in TickerSet : SpanDays(ohlcv, t) >= SpanDays(before, t)

C5_Witness ==
    /\ pc = "done"
    /\ outcome["GGAL"] = "success"
    /\ Len(calls) >= 2
    /\ SpanDays(before, "GGAL") > 0
    /\ SpanDays(ohlcv, "GGAL") > SpanDays(before, "GGAL")

\* download_all classifies the instrument in turn.
Classifies == pc = "final" /\ pc' = "da_loop"

\* C6 (amended): a cascade run that no exception ends is classified as
\* exactly one of EMPTY when the instrument has no stored row_index=0 bar
\* after the run, SUFFICIENT when it has one and the final coverage is at
\* least the target, PARTIAL when it has one and the final coverage is below
\* it; a run that an exception ends inside the cascade is counted as an
\* error and as none of the three.
C6_Classified ==
    [][/\ Classifies =>
          LET t == tickerlist[i]
          IN /\ outcome'[t] \in {"success", "partial", "empty"}
             /\ outcome'[t] = "empty" <=> Dates0(ohlcv', t) = {}
             /\ outcome'[t] = "success" <=> HasCoverage(ohlcv', t, args.min_years)
             /\ stats' = [stats EXCEPT ![outcome'[t]] = @ + 1,
                                       !.total_bars = @ + (IF outcome'[t] = "empty"
                                                           THEN 0 ELSE total_stored)]
       /\ (pc = "cascade" /\ pc' = "da_loop") =>
              /\ outcome'[tickerlist[i]] = "error"
              /\ stats' = [stats EXCEPT !.errors = @ + 1]]_vars

\* C6 as stated: ... EMPTY when no source returned any data during the run.
C6_Original ==
    [][Classifies =>
          LET t == tickerlist[i]
          IN /\ outcome'[t] \in {"success", "partial", "empty"}
             /\ outcome'[t] = "empty" <=> FirstContributor(calls) = None]_vars

C6_Witness ==
    /\ outcome["GGAL"] = "partial"
    /\ Len(calls) = 4
    /\ FirstContributor(calls) = None
    /\ Dates0(ohlcv, "GGAL") # {}

\* The first and the second source that skip_sources leaves.
SourceA == Priority[SetMin({n \in 1..Len(Priority) : Priority[n] \notin args.skip_sources})]
SourceB == Priority[SetMin(LaterEnabled(SourceA))]

\* The instrument had no bar, min_years is 5, the first source called
\* returned bars 731 days (2 years) apart and the second bars 2192 days
\* (6 years) apart, which is the whole date range.
C7_Scenario ==
    /\ tickerlist = <<"GGAL">>
    /\ Dates0(before, "GGAL") = {}
    /\ args.min_years = 5
    /\ Len(calls) >= 2
    /\ calls[1].result = "rows" /\ calls[1].span = 731
    /\ calls[2].result = "rows" /\ calls[2].span = 2192

\* C7: in that scenario the cascade calls A, then B, then no further
\* source; the primary source is A; the stored row_index=0 dates are the
\* union of the dates A and B returned, one row each; and the run ends as
\* SUFFICIENT with A recorded on the instrument.
C7_TwoSources ==
    C7_Scenario =>
        /\ Len(calls) = 2
        /\ calls[1].source = SourceA
        /\ calls[2].source = SourceB
        /\ primary_source = SourceA
        /\ {k \in DOMAIN ohlcv : k[1] = "GGAL"} = {<<"GGAL", d, 0>> : d \in {1, 732, 2193}}
        /\ pc \in {"cascade", "final", "da_loop", "done"}
        /\ pc = "cascade" => j > PriorityOf(SourceB)
        /\ (pc = "da_loop" \/ (pc = "done" /\ i > Len(tickerlist))) =>
              /\ outcome["GGAL"] = "success"
              /\ tickers["GGAL"].data_source = SourceA
              /\ stats.success = 1

C7_Witness ==
    /\ C7_Scenario
    /\ pc = "done"
    /\ outcome["GGAL"] = "success"

\* A 4xx status other than the rate-limit signal 429.
IsPermanent(r) == r.kind = "http" /\ r.code \in {400, 401, 403, 404}

\* C8 as stated: a call whose request is answered with a permanent failure
\* makes exactly one HTTP attempt: it is over, with no backoff sleep.
C8_NoRetryOfPermanent ==
    (resps # <<>> /\ IsPermanent(resps[1])) =>
        /\ Len(resps) = 1
        /\ sleeps = <<>>
        /\ h_pc \in {"returned", "raised"}

C8_Witness ==
    /\ h_fn = "fetch_byma"
    /\ Len(resps) = 3
    /\ \A n \in 1..3 : resps[n] = [kind |-> "http", code |-> 403]
    /\ sleeps = <<3, 10>>
    /\ h_pc = "raised"

\* C9 as stated: a fetch of an adapter of the cascade makes at most
\* MAX_RETRIES = 3 HTTP attempts, and when it raises, it raises the error
\* of its last attempt.
C9_AtMostThreeAttempts ==
    h_fn \in HttpAdapters =>
        /\ Len(resps) <= 3
        /\ h_pc = "raised" => last_error = resps[Len(resps)]

C9_Witness ==
    /\ h_fn = "fetch_yahoo"
    /\ Len(resps) = 6
    /\ \A n \in 1..6 : resps[n] = [kind |-> "http", code |-> 503]
    /\ h_pc = "raised"

BatchKeys == {<<batch[n].ticker, batch[n].date, batch[n].row_index>> : n \in DOMAIN batch}

\* The last row of the batch with key k.
LastWrite(k) ==
    batch[SetMax({n \in DOMAIN batch : <<batch[n].ticker, batch[n].date, batch[n].row_index>> = k})]

\* C10: after a store_ohlcv call that returns, the table holds for every
\* key (symbol, date, dup_index) of the batch exactly the values of the
\* last row written with that key, whatever it held before and whatever
\* earlier rows of the batch wrote; rows with another dup_index are other
\* rows; every other row is as it was.
C10_Upsert ==
    (batch # <<>> /\ ~st_raised) =>
        /\ DOMAIN ohlcv = DOMAIN before \cup BatchKeys
        /\ \A k \in BatchKeys :
              /\ ohlcv[k].ohlc = LastWrite(k).ohlc
              /\ ohlcv[k].volume = LastWrite(k).volume
              /\ ohlcv[k].data_source = LastWrite(k).data_source
        /\ \A k \in DOMAIN before \ BatchKeys : ohlcv[k] = before[k]

C10_Witness ==
    /\ ~st_raised
    /\ Len(batch) = 2
    /\ batch[1].row_index = 0 /\ batch[2].row_index = 0
    /\ batch[1].ohlc = 100 /\ batch[2].ohlc = 101
    /\ <<"GGAL", 1, 0>> \in DOMAIN before
    /\ before[<<"GGAL", 1, 0>>].ohlc = 100
    /\ ohlcv[<<"GGAL", 1, 0>>].ohlc = 101
    /\ <<"GGAL", 1, 1>> \in DOMAIN ohlcv
    /\ Cardinality(DOMAIN ohlcv) = 2

\* C11 as stated: a store_ohlcv call that raises on a row of its batch leaves
\* no row of the batch in the table, also after the commit log_download
\* makes in download_all's handler.
C11_AllOrNothing ==
    [][(CallMade /\ NewCall.result = "rejected") => ohlcv' = ohlcv]_vars

C11_Witness ==
    /\ Len(calls) = 1
    /\ calls[1] = [source |-> "byma", result |-> "rejected", span |-> 731]
    /\ before = EmptyTable
    /\ DOMAIN ohlcv = {<<"GGAL", 1, 0>>}
    /\ Len(download_log) = 1
    /\ download_log[1].status = "error"

\* C13 as stated: whatever the provider sends, no row that fetch_byma,
\* fetch_iol, fetch_yahoo or fetch_analisistecnico returns has a null OHLC.
C13_NoNullHanded ==
    \A s \in SourceNames, t \in TickerSet, ans \in ProviderAnswers(feed) :
        LET f == Fetch(s, t, ans)
        IN \A n \in DOMAIN f.rows : f.rows[n].ohlc # NULL

C13_Witness ==
    /\ Len(calls) = 2
    /\ calls[1].result = "empty"
    /\ calls[2] = [source |-> "analisistecnico", result |-> "rejected", span |-> 0]
    /\ args.skip_sources = {"iol", "yahoo"}
    /\ outcome["GGAL"] = "error"
    /\ ohlcv = before

\* C12: no step of a cascade run, of a registry reconciliation or of the
\* store_ohlcv calls of a single-source run removes a key
\* (symbol, date, dup_index) from the bar store.
C12_KeysKept ==
    [][DOMAIN ohlcv \subseteq DOMAIN ohlcv']_vars

C12_Witness ==
    /\ pc = "done"
    /\ outcome["GGAL"] = "success"
    /\ DOMAIN before # {}
    /\ DOMAIN before \subseteq DOMAIN ohlcv
    /\ DOMAIN before # DOMAIN ohlcv
    /\ \E k \in DOMAIN before : ohlcv[k] # before[k]

\* The instrument's turn ends after its cascade was executed.
CascadeTurnEnds == pc \in {"cascade", "final"} /\ pc' = "da_loop"

\* C20: every step keeps the audit entries there are, as they are and in
\* their order, and adds at most one.  The step that ends the turn of an
\* instrument whose cascade was executed adds exactly one, for that
\* instrument, with status ok, empty or error; no other step adds one
\* (not the skip of the coverage pre-check, not a cancellation, not a
\* reconciliation, not a direct store).
C20_AppendOnly ==
    [][/\ Len(download_log') \in {Len(download_log), Len(download_log) + 1}
       /\ SubSeq(download_log', 1, Len(download_log)) = download_log
       /\ CascadeTurnEnds =>
             /\ Len(download_log') = Len(download_log) + 1
             /\ download_log'[Len(download_log')].ticker = tickerlist[i]
             /\ download_log'[Len(download_log')].status \in {"ok", "empty", "error"}
             /\ i' = i + 1
             /\ calls' = calls \/ CallMade
       /\ Len(download_log') = Len(download_log) + 1 => CascadeTurnEnds]_vars

C20_Witness ==
    /\ pc = "done"
    /\ Len(calls) = 4
    /\ Len(download_log) = 2
    /\ download_log[1] = LegacyLog[1]
    /\ download_log[2].ticker = "GGAL"
    /\ download_log[2].status = "ok"
    /\ outcome["GGAL"] = "partial"

\* The elements of a sequence.
Elements(q) == {q[n] : n \in DOMAIN q}

\* The rows of the CSV file for symbol t.
RecordsOf(t) == {n \in DOMAIN csv_rows : csv_rows[n].ticker = t}

\* The enabled cell of a CSV row says true.
SaysEnabled(row) == row.enabled \in {"true", "1", "yes"}

\* C14: after load_tickers_from_csv has returned, every symbol that was
\* stored as enabled when the call began and whose incoming record says
\* enabled=false (every row the list has for it, when it has several) is
\* in result["disabled"], is not in result["updated"], and is stored as not
\* enabled.
C14_Disabled ==
    r_pc = "returned" =>
        \A t \in DOMAIN reg_before :
            (/\ reg_before[t].enabled
             /\ RecordsOf(t) # {}
             /\ \A n \in RecordsOf(t) : ~SaysEnabled(csv_rows[n]))
            => /\ t \in Elements(result.disabled)
               /\ \A u \in Elements(result.updated) : u.ticker # t
               /\ t \in DOMAIN registry
               /\ ~registry[t].enabled

C14_Witness ==
    /\ r_pc = "returned"
    /\ r_run = 1
    /\ reg_before = [t \in {"GGAL"} |-> Instrument(1, "n1", "STOCK", TRUE, "")]
    /\ Len(csv_rows) = 1
    /\ csv_rows[1].ticker = "GGAL"
    /\ csv_rows[1].name = "n2"
    /\ csv_rows[1].enabled = "false"
    /\ result.disabled = <<"GGAL">>
    /\ result.updated = <<>>
    /\ registry["GGAL"] = Instrument(1, "n2", "STOCK", FALSE, "")

\* The fields among name, trading_type, enabled, description in which a CSV
\* row differs from the row stored when the call began (a NULL description
\* read as the empty one).
Differing(old, row) ==
    (IF old.name # row.name THEN {"name"} ELSE {})
    \cup (IF old.trading_type # row.trading_type THEN {"trading_type"} ELSE {})
    \cup (IF old.enabled # SaysEnabled(row) THEN {"enabled"} ELSE {})
    \cup (IF (IF old.description = None THEN "" ELSE old.description) # row.description
          THEN {"description"} ELSE {})

\* The fields of a set in the order name, trading_type, enabled, description.
Listed(fs) ==
    SelectSeq(<<"name", "trading_type", "enabled", "description">>, LAMBDA f : f \in fs)

\* A row of a symbol that was stored when the call began is processed.
KnownRowDone ==
    /\ r_pc = "loop"
    /\ r_k' = r_k + 1
    /\ csv_rows[r_k].ticker \in DOMAIN reg_before

\* C15 (amended): a row of a known symbol is classified DISABLED exactly
\* when enabled goes from true to false, whatever else differs, and then no
\* change list is reported; otherwise UPDATED when a field among name,
\* trading_type, enabled, description differs, with a change list naming
\* exactly the differing fields; otherwise UNCHANGED.
C15_Classification ==
    [][KnownRowDone =>
          LET row == csv_rows[r_k]
              old == reg_before[row.ticker]
              d   == Differing(old, row)
          IN IF old.enabled /\ ~SaysEnabled(row)
             THEN result' = [result EXCEPT !.disabled = Append(@, row.ticker)]
             ELSE IF d # {}
             THEN result' = [result EXCEPT !.updated =
                                Append(@, [ticker |-> row.ticker, changes |-> Listed(d)])]
             ELSE result' = [result EXCEPT !.unchanged = @ + 1]]_vars

\* C15 as stated: DISABLED exactly when the only differing field is
\* enabled, going from true to false; UPDATED with the list of the
\* differing fields when any other field differs; UNCHANGED when none does.
C15_Original ==
    [][KnownRowDone =>
          LET row == csv_rows[r_k]
              old == reg_before[row.ticker]
              d   == Differing(old, row)
          IN IF d = {"enabled"} /\ old.enabled
             THEN result' = [result EXCEPT !.disabled = Append(@, row.ticker)]
             ELSE IF d # {}
             THEN result' = [result EXCEPT !.updated =
                                Append(@, [ticker |-> row.ticker, changes |-> Listed(d)])]
             ELSE result' = [result EXCEPT !.unchanged = @ + 1]]_vars

C15_Witness ==
    /\ r_pc = "returned"
    /\ r_run = 1
    /\ DOMAIN reg_before = {"GGAL", "YPFD"}
    /\ reg_before["GGAL"] = Instrument(2, "n1", "STOCK", FALSE, "")
    /\ Len(csv_rows) = 2
    /\ csv_rows[1].ticker = "GGAL" /\ csv_rows[1].enabled = "true"
    /\ csv_rows[1].trading_type = "BOND"
    /\ csv_rows[2].ticker = "YPFD" /\ csv_rows[2].enabled = "false"
    /\ result.updated =
          <<[ticker |-> "GGAL", changes |-> <<"trading_type", "enabled", "description">>]>>
    /\ result.disabled = <<"YPFD">>
    /\ result.unchanged = 0

\* C16 as stated: a second run of load_tickers_from_csv with the same list
\* classifies every record UNCHANGED and leaves every instrument row as the
\* first run left it.
C16_Idempotent ==
    (r_run = 2 /\ r_pc = "returned") =>
        /\ result.new = <<>>
        /\ result.updated = <<>>
        /\ result.disabled = <<>>
        /\ result.unchanged = Len(csv_rows)
        /\ registry = reg_before

C16_Witness ==
    /\ r_run = 2
    /\ r_pc = "returned"
    /\ Len(csv_rows) = 2
    /\ csv_rows[1].ticker = "GGAL" /\ csv_rows[1].name = "n2"
    /\ csv_rows[2].ticker = "GGAL" /\ csv_rows[2].name = "n1"
    /\ result.updated = <<[ticker |-> "GGAL", changes |-> <<"name">>]>>
    /\ result.unchanged = 1
    /\ registry = reg_before

\* The largest id stored, 0 when there is none.
LargestId(reg) ==
    IF DOMAIN reg = {} THEN 0
    ELSE CHOOSE m \in {reg[t].id : t \in DOMAIN reg} : \A t \in DOMAIN reg : reg[t].id <= m

\* The row in turn is of a symbol that is not stored.
NewRowInTurn ==
    /\ r_pc = "loop"
    /\ r_k <= Len(csv_rows)
    /\ csv_rows[r_k].ticker \notin DOMAIN registry

\* The row in turn supplies an id.
SuppliesId == csv_rows[r_k].id \notin {"", "0"}

\* The row in turn supplies the id of a stored instrument.
SuppliesTakenId ==
    /\ SuppliesId
    /\ \E t \in DOMAIN registry : csv_rows[r_k].id = ToString(registry[t].id)

\* The step of the row in turn inserts it with id n and classifies it NEW.
InsertedAs(n) ==
    /\ DOMAIN registry' = DOMAIN registry \cup {csv_rows[r_k].ticker}
    /\ registry'[csv_rows[r_k].ticker].id = n
    /\ \A t \in DOMAIN registry : registry'[t] = registry[t]
    /\ result' = [result EXCEPT !.new = Append(@, csv_rows[r_k].ticker)]
    /\ r_pc' = "loop"

\* C17 (amended): a row whose symbol is not stored, and whose id, if it
\* supplies one, is not the id of a stored instrument, is classified NEW and
\* inserted; without an id (empty or 0) the id inserted is the largest id
\* stored at that moment plus one, so the ids given in one list are
\* pairwise distinct.  A row of a new symbol that supplies the id of a
\* stored instrument is not inserted: the call raises.
C17_NewRows ==
    [][NewRowInTurn =>
          IF SuppliesTakenId
          THEN r_pc' = "raised" /\ registry' = registry /\ result' = result
          ELSE IF SuppliesId
          THEN \E n \in 1..2 : csv_rows[r_k].id = ToString(n) /\ InsertedAs(n)
          ELSE InsertedAs(LargestId(registry) + 1)]_vars

\* C17 as stated: every row whose symbol is not stored is classified NEW
\* and inserted, with the largest id stored plus one when it supplies none.
C17_Original ==
    [][NewRowInTurn =>
          IF SuppliesId
          THEN \E n \in 1..2 : csv_rows[r_k].id = ToString(n) /\ InsertedAs(n)
          ELSE InsertedAs(LargestId(registry) + 1)]_vars

C17_Witness ==
    /\ r_pc = "returned"
    /\ r_run = 1
    /\ reg_before = EmptyTable
    /\ Len(csv_rows) = 2
    /\ csv_rows[1].ticker = "YPFD" /\ csv_rows[1].id = "2"
    /\ csv_rows[2].ticker = "GGAL" /\ csv_rows[2].id = ""
    /\ result.new = <<"YPFD", "GGAL">>
    /\ registry["YPFD"].id = 2
    /\ registry["GGAL"].id = 3

\* No two instruments of the table share an id.
DistinctIds(reg) ==
    \A t, u \in DOMAIN reg : t # u => reg[t].id # reg[u].id

\* C18: in every state of a run of reconciliations no two stored
\* instruments share an id (the table is keyed by symbol), and no step
\* changes the id of an instrument, whatever id the incoming rows carry.
C18_IdsStable ==
    [][/\ DistinctIds(registry)
       /\ DistinctIds(registry')
       /\ \A t \in DOMAIN registry \cap DOMAIN registry' :
             registry'[t].id = registry[t].id
       /\ DOMAIN reg_before' \subseteq DOMAIN registry']_vars

C18_Witness ==
    /\ r_pc = "returned"
    /\ r_run = 2
    /\ DOMAIN reg_before = {"GGAL", "YPFD"}
    /\ reg_before["GGAL"].id = 2
    /\ reg_before["YPFD"].id = 1
    /\ Len(csv_rows) = 2
    /\ csv_rows[1].ticker = "GGAL" /\ csv_rows[1].id = "1"
    /\ csv_rows[2].ticker = "YPFD" /\ csv_rows[2].id = ""
    /\ registry["GGAL"].id = 2
    /\ registry["YPFD"].id = 1

\* C19: no step of load_tickers_from_csv removes an instrument that was
\* stored when the call began, an instrument with no row in the list keeps
\* every field, and no step changes a bar or an audit entry.
C19_NoDelete ==
    [][/\ ohlcv' = ohlcv
       /\ download_log' = download_log
       /\ DOMAIN reg_before' \subseteq DOMAIN registry'
       /\ \A t \in DOMAIN reg_before' :
             (\A n \in DOMAIN csv_rows' : csv_rows'[n].ticker # t)
             => registry'[t] = reg_before'[t]]_vars

C19_Witness ==
    /\ r_pc = "returned"
    /\ r_run = 1
    /\ Len(csv_rows) = 2
    /\ \A n \in DOMAIN csv_rows : csv_rows[n].ticker = "GGAL"
    /\ DOMAIN reg_before = {"GGAL", "YPFD"}
    /\ reg_before["YPFD"] = Instrument(1, "n1", "STOCK", TRUE, None)
    /\ registry["YPFD"] = reg_before["YPFD"]
    /\ registry["GGAL"] # reg_before["GGAL"]
    /\ DOMAIN ohlcv = {<<"GGAL", 1, 0>>, <<"GGAL", 732, 0>>}
    /\ Len(download_log) = 1

\* The entries of an audit log for instrument t.
EntriesOf(lg, t) == SelectSeq(lg, LAMBDA e : e.ticker = t)

\* The audit entries the second run appended.
SecondLog == SubSeq(download_log, Len(first.log) + 1, Len(download_log))

\* The second of two runs went through its whole list.
SecondRunOver == reruns = 0 /\ first # NoFirst /\ pc = "done" /\ i > Len(tickerlist)

\* Entry e reports what entry f reported: the status and the stored count.
SameReport(e, f) == e.status = f.status /\ e.bars_stored = f.bars_stored

\* C21 as stated: after the second of two runs over the same remote data
\* the stored bars are those the first run left, and for every instrument
\* the second run appended one audit entry, which reports what the first
\* run's entry reported.
C21_Idempotent ==
    SecondRunOver =>
        /\ ohlcv = first.db
        /\ \A n \in DOMAIN tickerlist :
              LET t == tickerlist[n]
              IN /\ Len(EntriesOf(SecondLog, t)) = 1
                 /\ Len(EntriesOf(first.log, t)) = 1
                 /\ SameReport(EntriesOf(SecondLog, t)[1], EntriesOf(first.log, t)[1])

\* C21 (amended): after the second of two runs over the same remote data
\* the stored bars are those the first run left; an instrument the second
\* run skips on its coverage gets no audit entry from it; any other
\* instrument gets exactly one, with the status and the stored count of the
\* first run's entry, unless the first run ended in error for it and the
\* runs are forced.
C21_Repeatable ==
    SecondRunOver =>
        /\ ohlcv = first.db
        /\ \A n \in DOMAIN tickerlist :
              LET t == tickerlist[n]
              IN IF outcome[t] = "skipped"
                 THEN EntriesOf(SecondLog, t) = <<>>
                 ELSE /\ Len(EntriesOf(SecondLog, t)) = 1
                      /\ Len(EntriesOf(first.log, t)) = 1
                      /\ \/ SameReport(EntriesOf(SecondLog, t)[1], EntriesOf(first.log, t)[1])
                         \/ /\ EntriesOf(first.log, t)[1].status = "error"
                            /\ args.force

C21_Witness ==
    /\ SecondRunOver
    /\ ~args.force
    /\ outcome = [t \in TickerSet |-> IF t = "GGAL" THEN "partial" ELSE "skipped"]
    /\ first.outcome = [t \in TickerSet |-> IF t = "GGAL" THEN "partial" ELSE "success"]
    /\ Len(first.log) = 2
    /\ SecondLog = <<first.log[1]>>
    /\ first.log[1].bars_found = 2
    /\ ohlcv = first.db

\* The outcomes of an instrument and the CascadeStats counter of each.
CounterOf ==
    [skipped |-> "skipped", success |-> "success", partial |-> "partial",
     empty |-> "empty", error |-> "errors"]

\* A run of download_all begins.
RunBegins == pc = "da_loop" /\ i = 1

\* The run is over and every instrument of the list is counted in exactly
\* one counter.
RunCounted ==
    /\ pc = "done"
    /\ i = Len(tickerlist) + 1
    /\ \A n \in DOMAIN tickerlist : outcome[tickerlist[n]] \in DOMAIN CounterOf
    /\ \A o \in DOMAIN CounterOf :
          stats[CounterOf[o]] = Cardinality({n \in DOMAIN tickerlist : outcome[tickerlist[n]] = o})
    /\ stats.skipped + stats.success + stats.partial + stats.empty + stats.errors
          = Len(tickerlist)

\* No source that is not skipped has data for instrument t.
NoSourceHasData(t) ==
    \A s \in SourceNames \ args.skip_sources :
        LET f == Fetch(s, t, remote[t][s]) IN f.raised \/ f.rows = <<>>

\* The turn of the instrument ends.
TurnEnds == pc \in {"da_loop", "cascade", "final"} /\ i' = i + 1

Interrupted == pc = "done" /\ i <= Len(tickerlist)

\* The instrument's turn is left without an outcome: a KeyboardInterrupt
\* arrived.
Cancelled == pc \in {"cascade", "final"} /\ pc' \notin {"cascade", "final"} /\ outcome' = outcome

\* C23: the step of download_all that a KeyboardInterrupt ends leaves the
\* loop at the instrument in turn, with every bar, instrument update and
\* audit entry as they were and no further fetch; and nothing happens after
\* it: no fetch, no further instrument, no change of the store.
C23_Cancellation ==
    [][/\ Cancelled =>
             /\ pc' = "done"
             /\ i' = i
             /\ Interrupted'
             /\ calls' = calls
             /\ <<ohlcv, tickers, download_log>>' = <<ohlcv, tickers, download_log>>
       /\ Interrupted => UNCHANGED <<ohlcv, tickers, download_log, calls, i, pc, reruns>>]_vars

C23_Witness ==
    /\ Interrupted
    /\ i = 1
    /\ reruns = 1
    /\ Len(calls) = 1
    /\ calls[1].source = SOURCE_BYMA
    /\ calls[1].result = "rows"
    /\ DOMAIN ohlcv = {<<"GGAL", 1, 0>>, <<"GGAL", 732, 0>>}
    /\ ohlcv[<<"GGAL", 1, 0>>].data_source = SOURCE_BYMA
    /\ download_log = <<>>
    /\ outcome = [t \in TickerSet |-> "none"]

\* C24 as stated: no download of an instrument begins in scraper.py's
\* download_all after a first SIGINT was delivered, and once a second one
\* is delivered the process has exited.
C24_GracefulStop ==
    /\ \A n \in DOMAIN started : started[n].sigints = 0
    /\ sigints >= 2 => k_pc = "exited"

C24_Witness ==
    /\ k_pc = "returned"
    /\ sigints = 1
    /\ interrupted
    /\ Len(started) = 3
    /\ started[1] = [ticker |-> "GGAL", phase |-> 1, sigints |-> 0]
    /\ started[2] = [ticker |-> "YPFD", phase |-> 1, sigints |-> 1]
    /\ started[3] = [ticker |-> "GGAL", phase |-> 2, sigints |-> 1]

\* C25 as stated: every outbound request of a client of scraper.py follows
\* the one before of the same client by at least the client's delay, and
\* _throttle sleeps for a client by that client's own last request time
\* only.
C25_Throttle ==
    [][/\ gap'.ticks # NULL => gap'.ticks >= t_delay[gap'.to]
       /\ (t_pc = "ready" /\ t_pc' = "attempt") =>
             /\ age_stamp[t_who'] >= t_delay[t_who'] => t_slept' = 0
             /\ \A c \in Clients \ {t_who'} :
                   age_stamp'[c] = Elapse(age_stamp, t_slept')[c]]_vars

C25_Witness ==
    /\ t_pc = "ready"
    /\ t_who = "api"
    /\ t_attempt = 0
    /\ t_delay["api"] = 3
    /\ t_slept = 0
    /\ age_stamp["api"] = AgeCap
    /\ gap = [to |-> "api", ticks |-> 0]

\* C26 as stated: in a download_all run of scraper_cascade.py every
\* outbound request follows the request before to the same provider by at
\* least `delay`, retries and fallbacks included.
C26_Paced == gap.ticks # NULL => gap.ticks >= t_delay[gap.to]

C26_Witness ==
    /\ t_pc = "sleep"
    /\ t_who = SOURCE_YAHOO
    /\ t_call = 2
    /\ t_attempt = 0
    /\ t_delay[SOURCE_YAHOO] = 1
    /\ gap = [to |-> SOURCE_YAHOO, ticks |-> 0]

\* C27 as stated: with force set, the turn of every instrument of the list
\* ends after at least one source was called, whatever coverage is stored.
C27_ForceRefetches ==
    [][(args.force /\ TurnEnds) => calls' # <<>>]_vars

C27_Witness ==
    /\ args.force
    /\ pc = "done"
    /\ i = 2
    /\ calls = <<>>
    /\ outcome["GGAL"] = "success"
    /\ HasCoverage(before, "GGAL", args.min_years)
    /\ ohlcv = before
    /\ download_log = <<[ticker |-> "GGAL", status |-> "ok", bars_found |-> 0,
                          bars_stored |-> 2, data_source |-> "cascade"]>>
    /\ tickers["GGAL"].data_source = None

\* The rows of the table with row_index 0.
Primary(db) == [k \in {q \in DOMAIN db : q[3] = 0} |-> db[k]]

\* SELECT ticker, trading_type FROM tickers: every row, enabled or not.
get_all_tickers == DOMAIN registry

\* get_enabled_tickers: SELECT ... FROM tickers WHERE enabled = 1
get_enabled_tickers == {t \in DOMAIN registry : registry[t].enabled}

\* get_tickers_needing_data: the enabled instruments with `count == 0 or
\* yrs < min_years`.
get_tickers_needing_data(db, min_years) ==
    {t \in get_enabled_tickers :
        LET r == get_ohlcv_date_range(db, t)
        IN r.count = 0 \/ ~YearsAtLeast(years_of_data(r.min_date, r.max_date), min_years)}

\* The instrument has a stored bar with row_index > 0.
HasDuplicateBar(db, t) == \E k \in DOMAIN db : k[1] = t /\ k[3] > 0

\* C28: the coverage of every instrument is the coverage of its row_index 0
\* bars and is 0 without such a bar; the skip, the early exit, the selection
\* of the instruments needing data and the final classification are what
\* they would be without the bars of row_index > 0; and the steps that only
\* evaluate the coverage leave the store as it was.
C28_PrimaryCoverage ==
    /\ [](\A t \in TickerSet :
            LET c == Coverage(ohlcv, t)
                p == Coverage(Primary(ohlcv), t)
            IN /\ c = p
               /\ (\A k \in DOMAIN ohlcv : k[1] = t => k[3] # 0) => c.years = 0 /\ c.count = 0
               /\ \A m \in MinYearsSet :
                     /\ SkipGuard(FALSE, c.count, c.years, m) = SkipGuard(FALSE, p.count, p.years, m)
                     /\ EnoughGuard(c.count, c.years, m) = EnoughGuard(p.count, p.years, m)
                     /\ Classify(c.count, c.years, m) = Classify(p.count, p.years, m)
                     /\ get_tickers_needing_data(ohlcv, m) = get_tickers_needing_data(Primary(ohlcv), m))
    /\ [][(da_skip \/ cd_enough) => UNCHANGED <<ohlcv, tickers, download_log>>]_vars

C28_Witness ==
    /\ SecondRunOver
    /\ ~args.force
    /\ HasDuplicateBar(ohlcv, "GGAL")
    /\ Coverage(ohlcv, "GGAL").count = 3
    /\ Cardinality({k \in DOMAIN ohlcv : k[1] = "GGAL"}) = 4
    /\ first.outcome["GGAL"] = "success"
    /\ outcome["GGAL"] = "skipped"
    /\ get_tickers_needing_data(ohlcv, args.min_years) = {"YPFD"}

\* The table holds an instrument whose ticker is that of the cell but for
\* the case of its letters.
KnownButForCase(reg, cell) == \E t \in DOMAIN reg : upper(t) = upper(cell)

\* C30 as stated: no two rows of table tickers have tickers that differ
\* only in the case of their letters, and a CSV row whose ticker differs
\* only in case from a stored one is not reported as new.
C30_CaseNormalized ==
    /\ [](\A a, b \in DOMAIN registry : upper(a) = upper(b) => a = b)
    /\ [][(lt_row /\ KnownButForCase(reg_before, csv_rows[r_k].ticker))
             => result'.new = result.new]_vars

C30_Witness ==
    /\ r_pc = "returned"
    /\ r_run = 1
    /\ reg_before = [t \in {"GGAL"} |-> Instrument(1, "n1", "STOCK", TRUE, "")]
    /\ csv_rows = <<CsvRow("", "ggal", [name |-> "n1", trading_type |-> "STOCK", description |-> ""], "true")>>
    /\ DOMAIN registry = {"GGAL", "ggal"}
    /\ registry["ggal"].id = 2
    /\ result.new = <<"ggal">>

\* C29 as stated: with two processes in load_tickers_from_csv on one
\* database file, each adding new tickers without id, no process is ended
\* by an error and no id is assigned to two different tickers.
C29_DistinctIds ==
    /\ \A w \in DOMAIN w_error : w_error[w] = None
    /\ \A v, w \in DOMAIN w_assigned :
          \A s \in DOMAIN w_assigned[v], t \in DOMAIN w_assigned[w] :
             s # t => w_assigned[v][s] # w_assigned[w][t]

C29_Witness ==
    /\ DOMAIN w_pc = Writers
    /\ w_pc["p1"] = "returned"
    /\ w_pc["p2"] = "exited"
    /\ w_error["p2"] = "IntegrityError"
    /\ "ALUA" \in DOMAIN registry
    /\ "PAMP" \notin DOMAIN registry
    /\ DOMAIN w_assigned["p2"] = {"PAMP"}
    /\ w_assigned["p2"]["PAMP"] = registry["ALUA"].id

\* The instrument has a stored bar.
HasBars(db, t) == \E k \in DOMAIN db : k[1] = t

\* C37 as stated: no step of a run of download_all leaves an instrument
\* that has stored bars, and had a primary source, without a primary source.
C37_KeepsProvenance ==
    [][\A t \in TickerSet :
          (tickers[t].data_source # None /\ HasBars(ohlcv', t))
             => tickers'[t].data_source # None]_vars

C37_Witness ==
    /\ ~args.force
    /\ pc = "done"
    /\ i = 2
    /\ args.skip_sources = {}
    /\ Len(calls) = 4
    /\ outcome["GGAL"] = "partial"
    /\ ohlcv = before
    /\ HasBars(ohlcv, "GGAL")
    /\ tickers["GGAL"].bars_count = 2
    /\ tickers["GGAL"].data_source = None

\* C40: for every instrument and date the stored row_index values are
\* 0..k without a gap.
C40_ContiguousIndices ==
    \A k \in DOMAIN ohlcv :
       \A m \in 0..(k[3] - 1) : <<k[1], k[2], m>> \in DOMAIN ohlcv

C40_Witness ==
    /\ pc = "done"
    /\ Len(calls) = 2
    /\ calls[1].source = SOURCE_BYMA
    /\ calls[2].source = SOURCE_AT
    /\ <<"GGAL", 732, 1>> \in DOMAIN ohlcv
    /\ <<"GGAL", 732, 0>> \in DOMAIN before
    /\ <<"GGAL", 732, 1>> \notin DOMAIN before

\* C38: when load_tickers_from_csv raises, table tickers is, once the
\* process has ended, what it was when the call began: nothing of the rows
\* before the failing one is persisted.
C38_AllOrNothing ==
    /\ [](r_pc = "exited" => registry = reg_before)
    /\ [][r_pc = "raised" => (r_pc' = "exited" /\ registry' = reg_before)]_vars

C38_Witness ==
    /\ r_pc = "exited"
    /\ r_k = 2
    /\ Len(csv_rows) = 2
    /\ DOMAIN reg_before = {"GGAL"}
    /\ csv_rows[1].ticker = "GGAL"
    /\ csv_rows[1].name = "n2"
    /\ csv_rows[2].ticker = "YPFD"
    /\ csv_rows[2].id = "1"
    /\ result.updated = <<[ticker |-> "GGAL", changes |-> <<"name">>]>>
    /\ registry = reg_before
    /\ registry["GGAL"].name = "n1"

\* The iteration counts the CSV row in result["unchanged"].
CountedUnchanged == lt_row /\ result'.unchanged = result.unchanged + 1

\* C39 as stated: an iteration that counts its CSV row as unchanged leaves
\* the row of its ticker in table tickers as it was, in every column.
C39_UnchangedRowKept ==
    [][CountedUnchanged =>
          /\ csv_rows[r_k].ticker \in DOMAIN registry
          /\ registry'[csv_rows[r_k].ticker] = registry[csv_rows[r_k].ticker]]_vars

C39_Witness ==
    /\ r_pc = "returned"
    /\ r_run = 1
    /\ Len(csv_rows) = 1
    /\ csv_rows[1].ticker = "YPFD"
    /\ result = [NewResult EXCEPT !.unchanged = 1]
    /\ DOMAIN reg_before = {"GGAL", "YPFD"}
    /\ reg_before["YPFD"].description = None
    /\ registry["YPFD"].description = ""

\* The time.sleep arguments of the retry loop in progress: the latest
\* `attempt` ones (fetch_yahoo's fallback is a second call of _http_get).
SleepsOfCall == SubSeq(sleeps, Len(sleeps) - attempt + 1, Len(sleeps))

\* A step of a retry loop sleeps.
Sleeps == h_pc = "attempt" /\ sleeps' # sleeps

\* C33: a retry loop sleeps only on the way from an attempt that failed to
\* the next attempt of the same call, never after an attempt that returned
\* and never after the last attempt; the sleep before attempt k + 1 is the
\* k-th entry of RETRY_BACKOFF; and the sleeps of one call are strictly
\* increasing.
C33_BackoffBetweenAttempts ==
    /\ [][Sleeps =>
            /\ h_pc' = "attempt"
            /\ attempt < MAX_RETRIES - 1
            /\ attempt' = attempt + 1
            /\ Len(resps') = Len(resps) + 1
            /\ ~ReturnsAtOnce(h_fn, resps'[Len(resps')])
            /\ sleeps' = Append(sleeps, BackoffOf(h_fn)[attempt + 1])]_vars
    /\ [](h_pc # "idle" =>
            /\ Len(sleeps) >= attempt
            /\ attempt <= MAX_RETRIES - 1
            /\ \A a \in 1..attempt : SleepsOfCall[a] = BackoffOf(h_fn)[a]
            /\ \A a, b \in 1..attempt : a < b => SleepsOfCall[a] < SleepsOfCall[b])
    /\ [](h_pc \in {"returned", "raised"} => Len(SleepsOfCall) = Len(resps) - (h_call - 1) * MAX_RETRIES - 1)

C33_Witness ==
    /\ h_pc = "raised"
    /\ h_fn = "APIClient._request"
    /\ Len(resps) = MAX_RETRIES
    /\ \A n \in 1..MAX_RETRIES : resps[n].kind = "urlerror"
    /\ sleeps = <<5, 15>>

\* The rows the n-th fetch_fn call of the turn of instrument t returned.
ReturnedRows(t, n) ==
    IF calls[n].result \in {"rows", "rejected"}
    THEN Fetch(calls[n].source, t, remote[t][calls[n].source]).rows
    ELSE <<>>

\* The positions of the rows of date d and row_index 0.
RowsOfKey(rows, d) == {m \in DOMAIN rows : rows[m].date = d /\ rows[m].row_index = 0}

\* The calls of the turn that returned a row of date d and row_index 0.
CallsWithKey(t, d) == {n \in DOMAIN calls : RowsOfKey(ReturnedRows(t, n), d) # {}}

\* The turn of the only instrument of the list is over.
TurnOver == pc \in {"da_loop", "done"} /\ i = 2

\* C32 as stated: after the turn of an instrument, every key (ticker,
\* date, 0) that more than one of the sources called returned holds the
\* values and the data_source of the last of these sources.
C32_LastWriteWins ==
    TurnOver =>
       \A d \in DateSet :
          Cardinality(CallsWithKey("GGAL", d)) > 1 =>
             LET n    == SetMax(CallsWithKey("GGAL", d))
                 rows == ReturnedRows("GGAL", n)
                 r    == rows[SetMax(RowsOfKey(rows, d))]
             IN /\ <<"GGAL", d, 0>> \in DOMAIN ohlcv
                /\ ohlcv[<<"GGAL", d, 0>>] =
                      [ohlc |-> r.ohlc, volume |-> r.volume, data_source |-> r.data_source]

\* Last write wins where it applies: ByMA and IOL both returned day 732,
\* Yahoo returned day 1 last.
LastWriteWon ==
    /\ TurnOver
    /\ outcome["GGAL"] = "success"
    /\ tickers["GGAL"].data_source = SOURCE_BYMA
    /\ CallsWithKey("GGAL", 1) = {1, 2, 3}
    /\ CallsWithKey("GGAL", 732) = {1, 2}
    /\ ohlcv[<<"GGAL", 1, 0>>].data_source = SOURCE_YAHOO
    /\ ohlcv[<<"GGAL", 732, 0>>].ohlc = 101

\* ByMA and analisistecnico both returned day 732; the batch of
\* analisistecnico failed on its first row and the row of ByMA stays.
C32_Witness ==
    /\ TurnOver
    /\ before = EmptyTable
    /\ outcome["GGAL"] = "error"
    /\ Len(calls) = 4
    /\ calls[4].result = "rejected"
    /\ CallsWithKey("GGAL", 732) = {1, 4}
    /\ ohlcv[<<"GGAL", 732, 0>>].data_source = SOURCE_BYMA
    /\ ohlcv[<<"GGAL", 732, 0>>].ohlc = 100

\* In the database the prior run left, the instrument is marked downloaded.
MarkedBefore(t) == is_already_downloaded(first.tbl, t)

\* The one case in which a run without force asks for an instrument that
\* is marked downloaded: nothing stored, Yahoo enabled, not a bond.
OnlyYahoo(t) ==
    args.use_yahoo /\ ~has_ohlcv_data(first.db, t) /\ args.trading_types[t] # "BOND"

\* The requests made for instrument t.
CallsFor(t) == {n \in DOMAIN calls : calls[n].ticker = t}

\* C36: in a run of scraper.py's download_all without force, a request for
\* an instrument marked downloaded by a prior run is a request to Yahoo for
\* an instrument without stored bars, Yahoo enabled, that is not a bond; in
\* every other case the instrument is counted as skipped, without a request.
C36_DownloadedOnlyYahoo ==
    \A t \in TickerSet :
       (~args.force /\ MarkedBefore(t)) =>
          /\ \A n \in CallsFor(t) : calls[n].source = SOURCE_YAHOO /\ OnlyYahoo(t)
          /\ Cardinality(CallsFor(t)) <= 1
          /\ (k_pc = "returned" /\ ~OnlyYahoo(t)) =>
                (outcome[t] = "skipped" /\ CallsFor(t) = {})
          /\ (k_pc = "returned" /\ OnlyYahoo(t)) =>
                (outcome[t] # "skipped" /\ Cardinality(CallsFor(t)) = 1)
          /\ k_pc = "returned" =>
                stats.skipped = Cardinality({u \in TickerSet : outcome[u] = "skipped"})

C36_Witness ==
    /\ k_pc = "returned"
    /\ ~args.force
    /\ args.use_yahoo
    /\ args.trading_types["GGAL"] = "BOND"
    /\ MarkedBefore("GGAL") /\ ~has_ohlcv_data(first.db, "GGAL")
    /\ MarkedBefore("YPFD") /\ ~has_ohlcv_data(first.db, "YPFD")
    /\ outcome["GGAL"] = "skipped"
    /\ outcome["YPFD"] = "success"
    /\ calls = <<[ticker |-> "YPFD", source |-> SOURCE_YAHOO]>>
    /\ stats.skipped = 1

(***************************************************************************)
(* main in --sync mode: load_tickers_from_csv, get_tickers_needing_data,   *)
(* download_all(needing, force=True)                                       *)
(***************************************************************************)
\* ORDER BY ticker
OrderByTicker(S) ==
    IF S = {} THEN <<>>
    ELSE IF S = {"GGAL", "YPFD"} THEN <<"GGAL", "YPFD">>
    ELSE <<CHOOSE t \in S : TRUE>>

\* Six years of bars of instrument t.
LongBars(t) ==
    <<Row(t, 1, 100, 7, 0, SOURCE_BYMA), Row(t, 2193, 100, 7, 0, SOURCE_BYMA)>>

\* The bars an earlier run left: none; two years of GGAL; six years of
\* GGAL; six years of both instruments.
SyncBars ==
    {EmptyTable,
     LegacyBars,
     store_ohlcv(EmptyTable, LongBars("GGAL")).db,
     store_ohlcv(EmptyTable, LongBars("GGAL") \o LongBars("YPFD")).db}

\* What the providers hold for every instrument during the run.
SyncRemotes ==
    {[t \in TickerSet |->
        [s \in SourceNames |->
            CASE s = SOURCE_BYMA  -> g[1]
              [] s = SOURCE_IOL   -> NoData
              [] s = SOURCE_YAHOO -> g[2]
              [] s = SOURCE_AT    -> g[3]]] :
     g \in {Failing, ShortHistory, LongHistory}
            \X {Failing, ShortHistory}
            \X {NoData, EarlyHoliday}}

\* `needing = get_tickers_needing_data(conn, args.min_years)` is not empty:
\* download_all(needing, conn, min_years=args.min_years, force=True, ...)
sy_select ==
    /\ r_pc = "returned"
    /\ pc = "done"
    /\ tickerlist = <<>>
    /\ get_tickers_needing_data(ohlcv, args.min_years) # {}
    /\ tickerlist' = OrderByTicker(get_tickers_needing_data(ohlcv, args.min_years))
    /\ args' = [args EXCEPT !.force = TRUE]
    /\ first' = [db |-> ohlcv, log |-> download_log, outcome |-> outcome]
    /\ pc' = "da_loop"
    /\ i' = 1
    /\ UNCHANGED <<ohlcv, tickers, download_log, j, total_stored, primary_source,
                   sources_used, stats, outcome, calls, before, feed, remote, reruns,
                   outside>>

\* `if not needing`: conn.close(); return
sy_nothing ==
    /\ r_pc = "returned"
    /\ pc = "done"
    /\ tickerlist = <<>>
    /\ get_tickers_needing_data(ohlcv, args.min_years) = {}
    /\ r_pc' = "closed"
    /\ UNCHANGED <<registry, catalog, csv_rows, reg_before, result, r_k, r_run,
                   cvars, hvars, svars, xvars>>

\* main is called with --sync and a CSV file.
InitSelect ==
    /\ tickerlist = <<>>
    /\ feed = "distinct"
    /\ remote \in SyncRemotes
    /\ reruns = 0
    /\ first = NoFirst
    /\ ohlcv \in SyncBars
    /\ tickers = NewTickers
    /\ download_log = <<>>
    /\ args \in [force : {FALSE}, min_years : MinYearsSet, skip_sources : {{SOURCE_IOL}}]
    /\ pc = "done"
    /\ i = 1
    /\ j = 1
    /\ total_stored = 0
    /\ primary_source = None
    /\ sources_used = <<>>
    /\ stats = CascadeStats
    /\ outcome = [t \in TickerSet |-> "none"]
    /\ calls = <<>>
    /\ before = ohlcv
    /\ StoreIdle
    /\ RestIdle
    /\ HttpIdle
    /\ registry \in RegistrySeeds
    /\ catalog = "plain"
    /\ csv_rows = <<>>
    /\ reg_before = registry
    /\ result = NewResult
    /\ r_pc = "idle"
    /\ r_k = 1
    /\ r_run = 0

NextSelect ==
    \/ lt_begin
    \/ lt_row
    \/ lt_row_raises
    \/ lt_return
    \/ lt_exit
    \/ sy_select
    \/ sy_nothing
    \/ da_begin
    \/ cd_skip
    \/ cd_enough
    \/ cd_exhausted
    \/ cd_fetch_raises
    \/ cd_fetch_empty
    \/ cd_fetch_rows
    \/ cd_store_raises
    \/ da_final_empty
    \/ da_final_ok
    \/ da_interrupt
    \/ da_return

SpecSelect == InitSelect /\ [][NextSelect]_vars

\* When get_tickers_needing_data ran, t was stored as enabled and had no
\* row_index = 0 bar or less than min_years between its first and its last.
NeededData(t) ==
    /\ t \in DOMAIN registry
    /\ registry[t].enabled
    /\ ~HasCoverage(first.db, t, args.min_years)

\* The instruments of download_all's list.
Listed35 == {tickerlist[n] : n \in DOMAIN tickerlist}

\* C35: in --sync mode an adapter is called for an instrument only if,
\* after the reconciliation, it is stored as enabled and has no row_index
\* = 0 bar or a coverage below min_years; for a disabled instrument and for
\* one that meets the target no call is made.
C35_OnlyNeeding ==
    [][/\ CallMade => NeededData(Ticker)
       /\ \A t \in TickerSet :
             (tickerlist' # <<>> /\ ~NeededData(t)') =>
                (t \notin Listed35' /\ outcome'[t] = "none")]_vars

C35_Witness ==
    /\ pc = "done"
    /\ registry = [t \in {"GGAL", "YPFD"} |->
                     IF t = "GGAL" THEN Instrument(2, "n1", "STOCK", TRUE, "")
                     ELSE Instrument(1, "n1", "STOCK", TRUE, "")]
    /\ first.db = store_ohlcv(EmptyTable, LongBars("GGAL")).db
    /\ tickerlist = <<"YPFD">>
    /\ outcome = [t \in TickerSet |-> IF t = "YPFD" THEN "success" ELSE "none"]
    /\ args.force

(***************************************************************************)
(* scraper_cascade.py: the download phase of main, get_iol_scraper,        *)
(* fetch_iol and stop_iol_scraper                                          *)
(***************************************************************************)
\* IOLScraper.start with chromium installed: sync_playwright().start(),
\* chromium.launch, new_page.
start(session) == [pw |-> "started", browser |-> "open"]

\* IOLScraper.start left after sync_playwright().start(): chromium.launch
\* raised, or a KeyboardInterrupt arrived during it.
start_raises(session) == [pw |-> "started", browser |-> "none"]

\* IOLScraper.stop: `if self._browser: close()`, `if self._pw: stop()`
stop(session) ==
    [pw      |-> IF session.pw = "started" THEN "stopped" ELSE session.pw,
     browser |-> IF session.browser = "open" THEN "closed" ELSE session.browser]

\* The instrument in turn is done without a fetch_iol call: it is skipped,
\* "iol" is in skip_sources, or ByMA gave enough.
io_pass ==
    /\ m_pc = "download"
    /\ m_i <= Len(tickerlist)
    /\ m_i' = m_i + 1
    /\ UNCHANGED <<playwright, iol_scraper, iol_session, iol_results, stop_calls, m_pc, m_exc,
                   cvars, hvars, svars, rvars, kvars, tvars, wvars>>

\* The cascade of the instrument in turn calls fetch_iol.  With
\* _iol_scraper None, get_iol_scraper imports scraper_iol, whose import
\* guard calls sys.exit(1) when Playwright is missing: SystemExit passes
\* every `except Exception` up to main.  Otherwise the object is assigned
\* and started; when start raises, None is returned and the object stays
\* in the global, so that the next call finds it and scrape_ticker raises
\* on its missing page, which fetch_iol turns into [].
io_fetch_iol ==
    /\ m_pc = "download"
    /\ m_i <= Len(tickerlist)
    /\ SOURCE_IOL \notin args.skip_sources
    /\ IF iol_scraper = None /\ playwright = "missing"
       THEN /\ m_exc' = "SystemExit"
            /\ m_pc' = "finally"
            /\ UNCHANGED <<iol_scraper, iol_session, iol_results, m_i>>
       ELSE IF iol_scraper = None /\ playwright = "no_browser"
       THEN /\ iol_scraper' = "IOLScraper"
            /\ iol_session' = start_raises(NewSession)
            /\ iol_results' = Append(iol_results, "empty")
            /\ m_i' = m_i + 1
            /\ UNCHANGED <<m_exc, m_pc>>
       ELSE /\ iol_scraper' = "IOLScraper"
            /\ iol_session' = IF iol_scraper = None THEN start(NewSession) ELSE iol_session
            /\ \E r \in (IF iol_session'.browser = "open" THEN {"rows", "empty"} ELSE {"empty"}) :
                  iol_results' = Append(iol_results, r)
            /\ m_i' = m_i + 1
            /\ UNCHANGED <<m_exc, m_pc>>
    /\ UNCHANGED <<playwright, stop_calls, cvars, hvars, svars, rvars, kvars, tvars, wvars>>

\* KeyboardInterrupt: download_all breaks its loop and returns, or main's
\* `except KeyboardInterrupt` takes it.  It may arrive while the first
\* fetch_iol is in IOLScraper.start.
io_interrupt ==
    /\ m_pc = "download"
    /\ m_i <= Len(tickerlist)
    /\ m_pc' = "finally"
    /\ \/ UNCHANGED <<iol_scraper, iol_session>>
       \/ /\ SOURCE_IOL \notin args.skip_sources
          /\ iol_scraper = None
          /\ playwright # "missing"
          /\ iol_scraper' = "IOLScraper"
          /\ iol_session' = start_raises(NewSession)
    /\ UNCHANGED <<playwright, iol_results, stop_calls, m_i, m_exc,
                   cvars, hvars, svars, rvars, kvars, tvars, wvars>>

\* An exception leaves download_all: one raised outside its try block or
\* inside its `except Exception` handler (a failing log_download).
io_error ==
    /\ m_pc = "download"
    /\ m_i <= Len(tickerlist)
    /\ m_exc' = "Exception"
    /\ m_pc' = "finally"
    /\ UNCHANGED <<playwright, iol_scraper, iol_session, iol_results, stop_calls, m_i,
                   cvars, hvars, svars, rvars, kvars, tvars, wvars>>

\* download_all: the list is exhausted, `return stats`.
io_return ==
    /\ m_pc = "download"
    /\ m_i > Len(tickerlist)
    /\ m_pc' = "finally"
    /\ UNCHANGED <<playwright, iol_scraper, iol_session, iol_results, stop_calls, m_i, m_exc,
                   cvars, hvars, svars, rvars, kvars, tvars, wvars>>

\* A clean-up that runs only when download_all returned.
io_finally_on_return ==
    /\ m_pc = "finally"
    /\ IF iol_scraper # None /\ m_exc = None
       THEN /\ iol_session' = stop(iol_session)
            /\ stop_calls' = stop_calls + 1
            /\ iol_scraper' = None
       ELSE UNCHANGED <<iol_session, stop_calls, iol_scraper>>
    /\ m_pc' = IF m_exc = None THEN "returned" ELSE "exited"
    /\ UNCHANGED <<playwright, iol_results, m_i, m_exc,
                   cvars, hvars, svars, rvars, kvars, tvars, wvars>>

\* main's `finally: stop_iol_scraper()`, then conn.close() and
\* print_summary, or the exception goes on and ends the process.
io_finally ==
    /\ m_pc = "finally"
    /\ IF iol_scraper # None
       THEN /\ iol_session' = stop(iol_session)
            /\ stop_calls' = stop_calls + 1
            /\ iol_scraper' = None
       ELSE UNCHANGED <<iol_session, stop_calls, iol_scraper>>
    /\ m_pc' = IF m_exc = None THEN "returned" ELSE "exited"
    /\ UNCHANGED <<playwright, iol_results, m_i, m_exc,
                   cvars, hvars, svars, rvars, kvars, tvars, wvars>>

\* main enters the try block of its download phase.
InitIol ==
    /\ tickerlist = <<"GGAL", "YPFD">>
    /\ feed = "distinct"
    /\ SingleRun
    /\ ohlcv = EmptyTable
    /\ tickers = NewTickers
    /\ download_log = <<>>
    /\ args \in [force : BOOLEAN, min_years : MinYearsSet, skip_sources : SkipSets]
    /\ pc = "done"
    /\ i = 1
    /\ j = 1
    /\ total_stored = 0
    /\ primary_source = None
    /\ sources_used = <<>>
    /\ stats = CascadeStats
    /\ outcome = [t \in TickerSet |-> "none"]
    /\ calls = <<>>
    /\ before = ohlcv
    /\ HttpIdle
    /\ StoreIdle
    /\ SyncIdle
    /\ ScraperIdle
    /\ PaceIdle
    /\ WritersIdle
    /\ playwright \in {"installed", "no_browser", "missing"}
    /\ iol_scraper = None
    /\ iol_session = NewSession
    /\ iol_results = <<>>
    /\ stop_calls = 0
    /\ m_pc = "download"
    /\ m_i = 1
    /\ m_exc = None

NextIol ==
    \/ io_pass
    \/ io_fetch_iol
    \/ io_interrupt
    \/ io_error
    \/ io_return
    \/ io_finally

SpecIol == InitIol /\ [][NextIol]_vars

\* The instruments download_all did not get to.
Remaining == {n \in DOMAIN tickerlist : n >= m_i}

\* C31: with Playwright not installed a fetch_iol call returns an empty
\* result without raising, the cascade goes on to the next source and the
\* run over the remaining instruments goes on.
C31_MissingPlaywrightDisables ==
    [][(io_fetch_iol /\ playwright = "missing") =>
          /\ iol_results' = Append(iol_results, "empty")
          /\ m_exc' = None
          /\ m_pc' = "download"]_vars

C31_Witness ==
    /\ playwright = "missing"
    /\ m_pc = "exited"
    /\ m_exc = "SystemExit"
    /\ iol_results = <<>>
    /\ m_i = 1
    /\ Remaining = {1, 2}
    /\ stop_calls = 0

====
